---- MODULE Spec2Model ----
(***************************************************************************)
(* A model of pgreplay-go's log-to-traffic pipeline.                       *)
(*                                                                         *)
(*   Spec       Database.Consume: the dispatcher goroutine, one worker     *)
(*              goroutine (Conn.Start) per connection it opens, and the    *)
(*              caller that receives from errs.                            *)
(*   FairSpec   Spec with the fairness the Go scheduler gives every        *)
(*              goroutine that is able to run.                             *)
(*   SpecParse  ParseErrlog: the goroutine that scans log lines, parses    *)
(*              them with ParseItem and sends items and errors.            *)
(*   SpecStream Streamer.Stream and Streamer.Filter: the window filter and *)
(*              the pacing of the items against the wall clock.            *)
(***************************************************************************)
EXTENDS Integers, Sequences, FiniteSets, TLC

(***************************************************************************)
(* Bounds.                                                                 *)
(***************************************************************************)
\* number of items the dispatcher receives before the input must close
MaxItems == 3
\* capacity of the errs channel of Consume (make(chan error, 10) in the
\* source, scaled down so that a full buffer is reachable)
ErrsBufferSize == 2

\* number of log records the scanner yields before the input must end
MaxLines == 3
\* capacity of the items channel of the parsers (100 in the source, scaled
\* down so that a full buffer is reachable)
ItemBufferSize == 2

\* number of items the streamer receives before the input must close
MaxIn == 3
\* the timestamps of the items are 0, TsUnit, ..., MaxTs * TsUnit ticks
MaxTs == 2
TsUnit == 2
\* the wall clock stops being delayed at MaxNow ticks (a sleep may still
\* carry it further)
MaxNow == 3
\* before the first item is taken the wall clock is delayed by at most
\* MaxLead ticks
MaxLead == 1
\* denominator of the rates: a rate is a number of halves
RateDen == 2
\* capacity of the channel Filter returns (100 in the source, scaled down
\* so that a full buffer is reachable)
StreamFilterBufferSize == 1

Sessions == {"5c7404eb.d6bd", "5c7404eb.d6be"}
ItemTypes == {"Connect", "Disconnect", "Statement", "BoundExecute"}
ConnIds == 1..MaxItems

VARIABLES
  \* ---- Database.Consume ------------------------------------------------
  inputClosed, \* the producer has closed the items channel
  nRecv,       \* number of items the dispatcher has received from items
  dPc,         \* position of the dispatcher goroutine
  dItem,       \* the item the dispatcher holds (loop variable item)
  dErr,        \* the error the dispatcher is about to send on errs
  dVisited,    \* sessions whose conn the closing loop has visited
  conns,       \* d.conns: session id -> connection (0 = no entry)
  heap,        \* the Conn objects: pgx connection, queue, sync.Once (and,
               \* for the properties: how often Close was called and ran,
               \* and how Start left its loop)
  nConn,       \* number of Conn objects allocated so far
  wPc,         \* position of each worker goroutine
  wItem,       \* the item a worker has in flight
  wErr,        \* the value Conn.Start is returning
  wg,          \* sync.WaitGroup counter
  errs,        \* buffer of the errs channel
  errsClosed,  \* close(errs) has run
  doneClosed,  \* close(done) has run
  \* history of the run, read by the properties only
  handed,      \* per Conn: items sent on conn.In(), in order
  executed,    \* per Conn: items passed to item.Handle, in order
  rejected,    \* errors of queries rejected on a connection left open
  reported,    \* every error ever sent on errs
  openFailed,  \* the sessions for which d.Connect has returned an error
  \* ---- ParseErrlog -----------------------------------------------------
  parser,      \* the ParserFunc main handed to parseLog ("": none yet)
  csvLogline,  \* ParseCsvLog: the record reader.Read() returned last
  pPc,         \* position of the parsing goroutine
  pRead,       \* number of records scanner.Scan() has yielded
  unbounds,    \* map[SessionID]*Execute
  pItem,       \* item returned by ParseItem for the current record
  pErr,        \* err returned by ParseItem for the current record
  pI,          \* loop variable i of the flush loop
  scannerErr,  \* scanner.Err()
  pItems,      \* buffer of the items channel
  pItemsClosed,\* close(items) has run
  pErrsClosed, \* close(errs) has run
  pDoneClosed, \* close(done) has run
  \* history of the run, read by the properties only
  pLog,        \* the records read, in order
  pEmitted,    \* the non-nil items sent on items, in order
  pErrors,     \* the errors sent on errs, in order
  pDone,       \* the values sent on done, in order
  \* ---- Streamer ---------------------------------------------------------
  now,         \* time.Now(), in ticks
  sInput,      \* the items received from the items channel so far, in order
  sInClosed,   \* the parser has closed the items channel
  sStart,      \* Streamer.start
  sFinish,     \* Streamer.finish
  sRate,       \* rate, as a number of halves
  sPc,         \* position of Stream's goroutine
  sItem,       \* loop variable item of Stream's goroutine
  sSeen,       \* seenItem
  sFirst,      \* first
  sWall,       \* start, the wall clock when the first item was taken
  sWake,       \* the wall clock at which time.Sleep may return
  fPc,         \* position of Filter's goroutine
  fItem,       \* loop variable item of Filter's goroutine
  fOut,        \* buffer of the channel Filter returns
  fOutClosed,  \* close(out) has run in Filter's goroutine
  sOutClosed,  \* close(out) has run in Stream's goroutine
  \* history of the run, read by the properties only
  sDelay,      \* the duration last passed to time.Sleep (0: no sleep)
  sReal,       \* time.Since(start) when that duration was computed
  fSent,       \* the items Filter has sent, in order
  sEmitted,    \* the items Stream has sent, with the time of each send
  sRet,        \* what Stream returned: the channel and the error
  cancelled,   \* the context of the run has been cancelled
  \* ---- ItemMarshalJSON / ItemUnmarshalJSON ------------------------------
  jPc,         \* position of the caller that encodes an item and decodes it
  jItem,       \* the item handed to ItemMarshalJSON
  jPayload,    \* the bytes ItemMarshalJSON returned
  jBack,       \* what ItemUnmarshalJSON returned for them: item and error
  \* ---- ParseBindParameters on a rendered parameter list ----------------
  bPc,         \* position of the caller that renders a list and parses it
  bParameters, \* the parameters PostgreSQL logged
  bInput,      \* their rendering: the input of ParseBindParameters
  bRet,        \* what ParseBindParameters returned: parameters and error
  \* ---- bufio.Scanner with the split functions of the parsers -----------
  scPc,        \* position in Scan and in the loop that calls it
  scSplit,     \* the split function: "log" or "bind"
  scInput,     \* the whole input of the reader
  scRest,      \* the part of it the reader has not handed out
  scBuf,       \* s.buf[s.start:s.end]
  scStart,     \* s.start
  scLen,       \* len(s.buf)
  scErr,       \* s.err ("" is nil, "EOF" is io.EOF)
  scTokens,    \* the tokens Scan has returned, in order
  \* ---- the run command ---------------------------------------------------
  rParsePc,    \* position of the parser: "parsing" or "finished"
  rParseErr,   \* the error the parser sent on its done channel ("" is nil)
  rStatus,     \* the variable status of the run command
  rExit        \* the status the process exited with (empty before)

varsC == <<inputClosed, nRecv, dPc, dItem, dErr, dVisited, conns, heap, nConn, wPc, wItem,
           wErr, wg, errs, errsClosed, doneClosed, handed, executed,
           rejected, reported, openFailed>>

varsP == <<parser, csvLogline, pPc, pRead, unbounds, pItem, pErr, pI, scannerErr, pItems,
           pItemsClosed, pErrsClosed, pDoneClosed, pLog, pEmitted, pErrors,
           pDone>>

varsS == <<now, sInput, sInClosed, sStart, sFinish, sRate, sPc, sItem, sSeen,
           sFirst, sWall, sWake, sDelay, sReal, fPc, fItem, fOut, fOutClosed,
           fSent, sOutClosed, sEmitted, sRet, cancelled>>

varsJ == <<jPc, jItem, jPayload, jBack>>

\* the variables of the functions that are called on their own
varsB == <<bPc, bParameters, bInput, bRet>>

varsL == <<scPc, scSplit, scInput, scRest, scBuf, scStart, scLen, scErr, scTokens>>

varsR == <<rParsePc, rParseErr, rStatus, rExit>>

varsFn == <<varsJ, varsB, varsL, varsR>>

vars == <<varsC, varsP, varsS, varsFn>>

NoItem == [idx |-> 0, sid |-> "", type |-> "nil", user |-> "", database |-> ""]
\* Details.User and Details.Database of the items of a session: the log
\* prefix of every record of one backend carries the same user and database
UserOf(sid) == IF sid = "5c7404eb.d6bd" THEN "alice" ELSE "bob"
DatabaseOf(sid) == IF sid = "5c7404eb.d6bd" THEN "pgreplay_test" ELSE "postgres"
\* an item as the dispatcher sees it: GetSessionID, GetUser, GetDatabase
NewItem(i, sid, ty) ==
  [idx |-> i, sid |-> sid, type |-> ty, user |-> UserOf(sid),
   database |-> DatabaseOf(sid)]
\* the pgx.ConnConfig the Database was built with
DefaultCfg == [User |-> "postgres", Database |-> "postgres"]
NoErr == [kind |-> "nil", idx |-> 0]
Err(k, i) == [kind |-> k, idx |-> i]
\* what the history keeps of an item: its place in the input and its session
Ref(item) == [idx |-> item.idx, sid |-> item.sid]

\* (variant: the configuration is used as it was given to NewDatabase)
ConnectCfgDefault(cfg, item) == cfg
\* cfg := d.ConnConfig
\* cfg.Database, cfg.User = item.GetDatabase(), item.GetUser()
ConnectCfg(cfg, item) ==
  [cfg EXCEPT !.Database = item.database, !.User = item.user]

\* &Conn{conn, channels.NewInfiniteChannel(), sync.Once{}}; cfg is the
\* configuration conn was opened with, by the item Connect was called with
NewConn(item) ==
  [sid |-> item.sid, closed |-> FALSE, buf |-> <<>>, inClosed |-> FALSE,
   once |-> FALSE, closeRuns |-> 0, closeCalls |-> 0, exit |-> "",
   cfg |-> ConnectCfg(DefaultCfg, item), by |-> item.idx]
NoConn ==
  [sid |-> "", closed |-> FALSE, buf |-> <<>>, inClosed |-> FALSE,
   once |-> FALSE, closeRuns |-> 0, closeCalls |-> 0, exit |-> "",
   cfg |-> DefaultCfg, by |-> 0]

InitC ==
  /\ inputClosed = FALSE
  /\ nRecv = 0
  /\ dPc = "recv"
  /\ dItem = NoItem
  /\ dErr = NoErr
  /\ dVisited = {}
  /\ conns = [s \in Sessions |-> 0]
  /\ heap = [c \in ConnIds |-> NoConn]
  /\ nConn = 0
  /\ wPc = [c \in ConnIds |-> "none"]
  /\ wItem = [c \in ConnIds |-> NoItem]
  /\ wErr = [c \in ConnIds |-> NoErr]
  /\ wg = 0
  /\ errs = <<>>
  /\ errsClosed = FALSE
  /\ doneClosed = FALSE
  /\ handed = [c \in ConnIds |-> <<>>]
  /\ executed = [c \in ConnIds |-> <<>>]
  /\ rejected = {}
  /\ reported = {}
  /\ openFailed = {}

\* A panic in any goroutine ends the process: nothing runs afterwards.
Running == dPc # "panicked"

(***************************************************************************)
(* The dispatcher goroutine of Database.Consume.                           *)
(***************************************************************************)
\* (variant: an entry whose worker has exited counts as absent)
HasConnWhileWorkerRuns(tbl, sid) == tbl[sid] # 0 /\ wPc[tbl[sid]] # "done"

\* conn, ok := d.conns[item.GetSessionID()]
HasConn(tbl, sid) == tbl[sid] # 0

\* The producer of items closes the channel, once it has sent what it had
\* to send (the channel is not buffered: every item sent has been received)
CloseInput ==
  /\ Running
  /\ ~inputClosed
  /\ inputClosed' = TRUE
  /\ UNCHANGED <<nRecv, dPc, dItem, dErr, dVisited, conns, heap, nConn, wPc,
                 wItem, wErr, wg, errs, errsClosed, doneClosed, handed,
                 executed, rejected, reported, openFailed>>
  /\ UNCHANGED <<varsP, varsS, varsFn>>

\* for item := range items: an item arrives for a session that has an entry
\* in d.conns
ConsumeRecv ==
  /\ Running
  /\ dPc = "recv"
  /\ ~inputClosed
  /\ nRecv < MaxItems
  /\ \E sid \in Sessions, ty \in ItemTypes :
       /\ HasConn(conns, sid)
       /\ dItem' = NewItem(nRecv + 1, sid, ty)
  /\ dPc' = "handoff"
  /\ nRecv' = nRecv + 1
  /\ UNCHANGED <<dErr, dVisited, conns, heap, nConn, wPc, wItem, wErr, wg,
                 errs, errsClosed, doneClosed, handed, executed, rejected,
                 reported>>
  /\ UNCHANGED <<inputClosed, openFailed, varsP, varsS, varsFn>>

\* for item := range items  (the channel is closed and drained)
ConsumeInputClosed ==
  /\ Running
  /\ dPc = "recv"
  /\ inputClosed
  /\ dPc' = "closing"
  /\ UNCHANGED <<nRecv, dItem, dErr, dVisited, conns, heap, nConn, wPc,
                 wItem, wErr, wg, errs, errsClosed, doneClosed, handed,
                 executed, rejected, reported>>
  /\ UNCHANGED <<inputClosed, openFailed, varsP, varsS, varsFn>>

\* An item arrives for a session with no entry and d.Connect(ctx, item)
\* succeeds: the entry is stored and the worker goroutine started
ConsumeConnect ==
  /\ Running
  /\ dPc = "recv"
  /\ ~inputClosed
  /\ nRecv < MaxItems
  /\ \E sid \in Sessions, ty \in ItemTypes :
       /\ ~HasConn(conns, sid)
       /\ dItem' = NewItem(nRecv + 1, sid, ty)
       /\ LET c == nConn + 1 IN
            /\ heap' = [heap EXCEPT ![c] = NewConn(NewItem(nRecv + 1, sid, ty))]
            /\ conns' = [conns EXCEPT ![sid] = c]
            /\ wPc' = [wPc EXCEPT ![c] = "recv"]
            /\ nConn' = c
  /\ wg' = wg + 1
  /\ dPc' = "handoff"
  /\ nRecv' = nRecv + 1
  /\ UNCHANGED <<dErr, dVisited, wItem, wErr, errs, errsClosed, doneClosed,
                 handed, executed, rejected, reported>>
  /\ UNCHANGED <<inputClosed, openFailed, varsP, varsS, varsFn>>

\* An item arrives for a session with no entry and d.Connect(ctx, item)
\* fails: err is kept for errs <- err
ConsumeConnectFail ==
  /\ Running
  /\ dPc = "recv"
  /\ ~inputClosed
  /\ nRecv < MaxItems
  /\ \E sid \in Sessions, ty \in ItemTypes :
       /\ ~HasConn(conns, sid)
       /\ dItem' = NewItem(nRecv + 1, sid, ty)
       /\ openFailed' = openFailed \cup {sid}
  /\ dErr' = Err("open", nRecv + 1)
  /\ dPc' = "errsSend"
  /\ nRecv' = nRecv + 1
  /\ UNCHANGED <<dVisited, conns, heap, nConn, wPc, wItem, wErr, wg, errs,
                 errsClosed, doneClosed, handed, executed, rejected,
                 reported>>
  /\ UNCHANGED <<inputClosed, varsP, varsS, varsFn>>

\* errs <- err; continue
ConsumeSendErr ==
  /\ Running
  /\ dPc = "errsSend"
  /\ Len(errs) < ErrsBufferSize
  /\ errs' = Append(errs, dErr)
  /\ reported' = reported \cup {dErr}
  /\ dErr' = NoErr
  /\ dItem' = NoItem
  /\ dPc' = "recv"
  /\ UNCHANGED <<nRecv, dVisited, conns, heap, nConn, wPc, wItem, wErr, wg,
                 errsClosed, doneClosed, handed, executed, rejected>>
  /\ UNCHANGED <<inputClosed, openFailed, varsP, varsS, varsFn>>

\* (variant: a channel that buffers a single value)
InReadyBounded(q) == Len(q) < 1

\* The input side of an InfiniteChannel accepts a value whatever the number
\* of values it already buffers.
InReady(q) == TRUE

\* conn.In() <- item
ConsumeHandOff ==
  /\ Running
  /\ dPc = "handoff"
  /\ LET c == conns[dItem.sid] IN
       /\ InReady(heap[c].buf)
       /\ IF heap[c].inClosed
            THEN \* send on a closed channel
                 /\ dPc' = "panicked"
                 /\ UNCHANGED <<heap, handed, dItem>>
            ELSE /\ heap' = [heap EXCEPT ![c].buf = Append(@, dItem)]
                 /\ handed' = [handed EXCEPT ![c] = Append(@, Ref(dItem))]
                 /\ dItem' = NoItem
                 /\ dPc' = "recv"
  /\ UNCHANGED <<nRecv, dErr, dVisited, conns, nConn, wPc, wItem, wErr, wg,
                 errs, errsClosed, doneClosed, executed, rejected, reported>>
  /\ UNCHANGED <<inputClosed, openFailed, varsP, varsS, varsFn>>

\* (variant: c.Channel.Close() without the sync.Once)
CloseUnguarded(h, c) ==
  [h EXCEPT ![c].once = TRUE, ![c].inClosed = TRUE,
            ![c].closeRuns = @ + 1, ![c].closeCalls = @ + 1]

\* func (c *Conn) Close() { c.Once.Do(c.Channel.Close) }
Close(h, c) ==
  IF h[c].once
    THEN [h EXCEPT ![c].closeCalls = @ + 1]
    ELSE [h EXCEPT ![c].once = TRUE, ![c].inClosed = TRUE,
                   ![c].closeRuns = @ + 1, ![c].closeCalls = @ + 1]

\* for _, conn := range d.conns { conn.Close() }  (one iteration)
ConsumeCloseConn(s) ==
  /\ Running
  /\ dPc = "closing"
  /\ s \notin dVisited
  /\ conns[s] # 0
  /\ heap' = Close(heap, conns[s])
  /\ dVisited' = dVisited \cup {s}
  /\ UNCHANGED <<nRecv, dPc, dItem, dErr, conns, nConn, wPc, wItem, wErr, wg,
                 errs, errsClosed, doneClosed, handed, executed, rejected,
                 reported>>
  /\ UNCHANGED <<inputClosed, openFailed, varsP, varsS, varsFn>>

\* wg.Wait() returns when the counter is zero
WaitReturns(n) == n = 0

\* the range over d.conns is over and wg.Wait() returns
ConsumeWait ==
  /\ Running
  /\ dPc = "closing"
  /\ \A s \in Sessions : conns[s] # 0 => s \in dVisited
  /\ WaitReturns(wg)
  /\ dPc' = "closeErrs"
  /\ UNCHANGED <<nRecv, dItem, dErr, dVisited, conns, heap, nConn, wPc,
                 wItem, wErr, wg, errs, errsClosed, doneClosed, handed,
                 executed, rejected, reported>>
  /\ UNCHANGED <<inputClosed, openFailed, varsP, varsS, varsFn>>

\* close(errs)
ConsumeCloseErrs ==
  /\ Running
  /\ dPc = "closeErrs"
  /\ errsClosed' = TRUE
  /\ dPc' = "closeDone"
  /\ UNCHANGED <<nRecv, dItem, dErr, dVisited, conns, heap, nConn, wPc,
                 wItem, wErr, wg, errs, doneClosed, handed, executed,
                 rejected, reported>>
  /\ UNCHANGED <<inputClosed, openFailed, varsP, varsS, varsFn>>

\* close(done)
ConsumeCloseDone ==
  /\ Running
  /\ dPc = "closeDone"
  /\ doneClosed' = TRUE
  /\ dPc' = "finished"
  /\ UNCHANGED <<nRecv, dItem, dErr, dVisited, conns, heap, nConn, wPc,
                 wItem, wErr, wg, errs, errsClosed, handed, executed,
                 rejected, reported>>
  /\ UNCHANGED <<inputClosed, openFailed, varsP, varsS, varsFn>>

(***************************************************************************)
(* A worker goroutine: go func(conn *Conn) { ... conn.Start(ctx) ... }.    *)
(***************************************************************************)
\* (variant: the newest value first)
QueueNextLast(buf) == Len(buf)

\* An InfiniteChannel delivers the values in the order they were sent: the
\* position in the buffer of the value that Out() delivers next.
QueueNext(buf) == 1

RemoveAt(buf, i) == SubSeq(buf, 1, i - 1) \o SubSeq(buf, i + 1, Len(buf))

\* for item := range items  (the next queued item is received)
StartRecv(c) ==
  /\ Running
  /\ wPc[c] = "recv"
  /\ heap[c].buf # <<>>
  /\ LET i == QueueNext(heap[c].buf) IN
       /\ wItem' = [wItem EXCEPT ![c] = heap[c].buf[i]]
       /\ heap' = [heap EXCEPT ![c].buf = RemoveAt(@, i)]
  /\ wPc' = [wPc EXCEPT ![c] = "handle"]
  /\ UNCHANGED <<nRecv, dPc, dItem, dErr, dVisited, conns, nConn, wErr, wg,
                 errs, errsClosed, doneClosed, handed, executed, rejected,
                 reported>>
  /\ UNCHANGED <<inputClosed, openFailed, varsP, varsS, varsFn>>

\* What item.Handle(ctx, conn) can do, by item type: Connect.Handle returns
\* nil; Disconnect.Handle closes the connection and returns conn.Close's
\* result; Statement.Handle and BoundExecute.Handle run conn.Exec, which
\* succeeds, is rejected by the database (the connection stays usable), or
\* fails because the connection is lost.
Outcomes(item) ==
  CASE item.type = "Connect" -> {"ok"}
    [] item.type = "Disconnect" -> {"closed", "closeFailed"}
    [] OTHER -> {"ok", "rejected", "lost"}

HandleErr(item, o) ==
  CASE o = "ok" -> NoErr
    [] o = "closed" -> NoErr
    [] o = "closeFailed" -> Err("close", item.idx)
    [] o = "rejected" -> Err("query", item.idx)
    [] o = "lost" -> Err("lost", item.idx)

\* (variant: only a lost connection leaves the connection closed)
HandleClosesOnLoss(o) == o = "lost"
\* Disconnect.Handle is conn.Close(ctx), after which conn.IsClosed() holds
\* whether or not Close returned an error; a query on a connection that
\* breaks leaves it closed as well
HandleCloses(o) == o \in {"closed", "closeFailed", "lost"}

\* (variant: if err != nil || c.IsClosed() { return err })
StopsOnError(isClosed, err) == isClosed \/ err # NoErr

\* if c.IsClosed() { return err }: the worker leaves its loop after an item
\* exactly when the connection is closed.
StopsAfter(isClosed, err) == isClosed

\* err := item.Handle(ctx, c.Conn); if c.IsClosed() { return err }
StartHandle(c) ==
  /\ Running
  /\ wPc[c] = "handle"
  /\ \E o \in Outcomes(wItem[c]) :
       LET err == HandleErr(wItem[c], o)
           isClosed == heap[c].closed \/ HandleCloses(o)
       IN  /\ heap' = [heap EXCEPT ![c].closed = isClosed,
                                   ![c].exit =
                                     IF StopsAfter(isClosed, err)
                                       THEN IF wItem[c].type = "Disconnect"
                                              THEN "disconnect"
                                              ELSE "closed"
                                       ELSE @]
           /\ executed' = [executed EXCEPT ![c] = Append(@, Ref(wItem[c]))]
           /\ rejected' = IF o = "rejected" THEN rejected \cup {err}
                                            ELSE rejected
           /\ IF StopsAfter(isClosed, err)
                THEN /\ wErr' = [wErr EXCEPT ![c] = err]
                     /\ wPc' = [wPc EXCEPT ![c] = "deferClose"]
                ELSE /\ wErr' = wErr
                     /\ wPc' = [wPc EXCEPT ![c] = "recv"]
  /\ wItem' = [wItem EXCEPT ![c] = NoItem]
  /\ UNCHANGED <<nRecv, dPc, dItem, dErr, dVisited, conns, nConn, wg, errs,
                 errsClosed, doneClosed, handed, reported>>
  /\ UNCHANGED <<inputClosed, openFailed, varsP, varsS, varsFn>>

\* (variant: no Disconnect when the queue is drained)
SelfDisconnectSkipped(h, c) == h

\* if !c.IsClosed() { Disconnect{}.Handle(ctx, c.Conn) }
SelfDisconnect(h, c) == [h EXCEPT ![c].closed = TRUE]

\* The range over items ends (queue closed and empty); return nil
StartDrained(c) ==
  /\ Running
  /\ wPc[c] = "recv"
  /\ heap[c].buf = <<>>
  /\ heap[c].inClosed
  /\ heap' = [(IF ~heap[c].closed THEN SelfDisconnect(heap, c) ELSE heap)
                 EXCEPT ![c].exit = "drained"]
  /\ wErr' = [wErr EXCEPT ![c] = NoErr]
  /\ wPc' = [wPc EXCEPT ![c] = "deferClose"]
  /\ UNCHANGED <<nRecv, dPc, dItem, dErr, dVisited, conns, nConn, wItem, wg,
                 errs, errsClosed, doneClosed, handed, executed, rejected,
                 reported>>
  /\ UNCHANGED <<inputClosed, openFailed, varsP, varsS, varsFn>>

\* defer c.Close(), then back in the goroutine: if err != nil { errs <- err }
StartDeferClose(c) ==
  /\ Running
  /\ wPc[c] = "deferClose"
  /\ heap' = Close(heap, c)
  /\ wPc' = [wPc EXCEPT ![c] = IF wErr[c] # NoErr THEN "errsSend" ELSE "exit"]
  /\ UNCHANGED <<nRecv, dPc, dItem, dErr, dVisited, conns, nConn, wItem,
                 wErr, wg, errs, errsClosed, doneClosed, handed, executed,
                 rejected, reported>>
  /\ UNCHANGED <<inputClosed, openFailed, varsP, varsS, varsFn>>

\* errs <- err  (in the worker goroutine)
WorkerSendErr(c) ==
  /\ Running
  /\ wPc[c] = "errsSend"
  /\ Len(errs) < ErrsBufferSize
  /\ errs' = Append(errs, wErr[c])
  /\ reported' = reported \cup {wErr[c]}
  /\ wErr' = [wErr EXCEPT ![c] = NoErr]
  /\ wPc' = [wPc EXCEPT ![c] = "exit"]
  /\ UNCHANGED <<nRecv, dPc, dItem, dErr, dVisited, conns, heap, nConn,
                 wItem, wg, errsClosed, doneClosed, handed, executed,
                 rejected>>
  /\ UNCHANGED <<inputClosed, openFailed, varsP, varsS, varsFn>>

\* defer connectionsActive.Dec(); defer wg.Done()
WorkerDone(c) ==
  /\ Running
  /\ wPc[c] = "exit"
  /\ wg' = wg - 1
  /\ wPc' = [wPc EXCEPT ![c] = "done"]
  /\ UNCHANGED <<nRecv, dPc, dItem, dErr, dVisited, conns, heap, nConn,
                 wItem, wErr, errs, errsClosed, doneClosed, handed, executed,
                 rejected, reported>>
  /\ UNCHANGED <<inputClosed, openFailed, varsP, varsS, varsFn>>

(***************************************************************************)
(* The caller of Consume receives from errs (cmd/pgreplay: case err :=     *)
(* <-errs).                                                                *)
(***************************************************************************)
CallerRecvErr ==
  /\ Running
  /\ errs # <<>>
  /\ errs' = Tail(errs)
  /\ UNCHANGED <<nRecv, dPc, dItem, dErr, dVisited, conns, heap, nConn, wPc,
                 wItem, wErr, wg, errsClosed, doneClosed, handed, executed,
                 rejected, reported>>
  /\ UNCHANGED <<inputClosed, openFailed, varsP, varsS, varsFn>>

\* the steps of the goroutines of Consume
ConsumeSteps ==
  \/ ConsumeRecv
  \/ ConsumeInputClosed
  \/ ConsumeConnect
  \/ ConsumeConnectFail
  \/ ConsumeSendErr
  \/ ConsumeHandOff
  \/ \E s \in Sessions : ConsumeCloseConn(s)
  \/ ConsumeWait
  \/ ConsumeCloseErrs
  \/ ConsumeCloseDone
  \/ \E c \in ConnIds : StartRecv(c)
  \/ \E c \in ConnIds : StartHandle(c)
  \/ \E c \in ConnIds : StartDrained(c)
  \/ \E c \in ConnIds : StartDeferClose(c)
  \/ \E c \in ConnIds : WorkerSendErr(c)
  \/ \E c \in ConnIds : WorkerDone(c)

Next ==
  \/ CloseInput
  \/ ConsumeSteps
  \/ CallerRecvErr


(***************************************************************************)
(* Strings, as the Go code handles them (positions here start at 1).       *)
(***************************************************************************)
\* s[n:]
Drop(s, n) == SubSeq(s, n + 1, Len(s))
\* s[:n]
Take(s, n) == SubSeq(s, 1, n)
\* s[i-1], one character
At(s, i) == SubSeq(s, i, i)

\* strings.HasPrefix / bytes.HasPrefix
HasPrefix(s, prefix) == Len(s) >= Len(prefix) /\ Take(s, Len(prefix)) = prefix
\* strings.TrimPrefix
TrimPrefix(s, prefix) == IF HasPrefix(s, prefix) THEN Drop(s, Len(prefix)) ELSE s
\* the positions at which sub occurs in s
Occurrences(s, sub) ==
  {i \in 1..(Len(s) - Len(sub) + 1) : SubSeq(s, i, i + Len(sub) - 1) = sub}
Contains(s, sub) == Occurrences(s, sub) # {}
Max(S) == CHOOSE x \in S : \A y \in S : y <= x
Min(S) == CHOOSE x \in S : \A y \in S : x <= y

Digits == {"0", "1", "2", "3", "4", "5", "6", "7", "8", "9"}
Lower == {"a", "b", "c", "d", "e", "f", "g", "h", "i", "j", "k", "l", "m",
          "n", "o", "p", "q", "r", "s", "t", "u", "v", "w", "x", "y", "z"}
Upper == {"A", "B", "C", "D", "E", "F", "G", "H", "I", "J", "K", "L", "M",
          "N", "O", "P", "Q", "R", "S", "T", "U", "V", "W", "X", "Y", "Z"}
\* the regular expression class \w
WordChars == Digits \cup Lower \cup Upper \cup {"_"}
AllIn(s, chars) == \A i \in 1..Len(s) : At(s, i) \in chars
DigitValue(ch) ==
  CASE ch = "0" -> 0 [] ch = "1" -> 1 [] ch = "2" -> 2 [] ch = "3" -> 3
    [] ch = "4" -> 4 [] ch = "5" -> 5 [] ch = "6" -> 6 [] ch = "7" -> 7
    [] ch = "8" -> 8 [] ch = "9" -> 9
RECURSIVE Atoi(_)
Atoi(s) == IF s = "" THEN 0
           ELSE 10 * Atoi(Take(s, Len(s) - 1)) + DigitValue(At(s, Len(s)))

\* strings.SplitN(s, sep, n) for a one-character sep
RECURSIVE SplitN(_, _, _)
SplitN(s, sep, n) ==
  IF n = 1 \/ ~Contains(s, sep) THEN <<s>>
  ELSE LET i == Min(Occurrences(s, sep))
       IN  <<Take(s, i - 1)>> \o SplitN(Drop(s, i), sep, n - 1)

\* strings.Replace(s, old, new, -1)
RECURSIVE ReplaceAll(_, _, _)
ReplaceAll(s, old, new) ==
  IF ~Contains(s, old) THEN s
  ELSE LET i == Min(Occurrences(s, old))
       IN  Take(s, i - 1) \o new \o ReplaceAll(Drop(s, i + Len(old) - 1), old, new)

(***************************************************************************)
(* The regular expressions of the log messages.  RegexEnds(re, s) is the   *)
(* set of lengths of the prefixes of s that the expression matches (all    *)
(* the expressions are anchored at ^; . does not match a newline; $ is the *)
(* end of the text).  MatchString holds when the set is not empty, and     *)
(* FindString, the expressions being greedy, returns the longest prefix.   *)
(***************************************************************************)
\* the positions that start on the first line of s (what ^.* can skip)
FirstLineStarts(s) ==
  1..Min({i \in 1..Len(s) : At(s, i) = "\n"} \cup {Len(s) + 1})

\* ^lit
EndsLit(s, lit) == IF HasPrefix(s, lit) THEN {Len(lit)} ELSE {}
\* ^.*lit
EndsDotStarLit(s, lit) ==
  {i + Len(lit) - 1 : i \in Occurrences(s, lit) \cap FirstLineStarts(s)}
\* ^duration\: (\d+)\.(\d+) ms$
EndsDuration(s) ==
  IF /\ HasPrefix(s, "duration: ")
     /\ Len(s) >= Len("duration: ") + Len(" ms")
     /\ Drop(s, Len(s) - Len(" ms")) = " ms"
     /\ LET num == SubSeq(s, Len("duration: ") + 1, Len(s) - Len(" ms"))
        IN  \E k \in 2..(Len(num) - 1) :
              /\ At(num, k) = "."
              /\ AllIn(Take(num, k - 1), Digits)
              /\ AllIn(Drop(num, k), Digits)
  THEN {Len(s)} ELSE {}
\* ^.*execute (\w+)\:
EndsNamedExecute(s) ==
  LET starts == Occurrences(s, "execute ") \cap FirstLineStarts(s) IN
    UNION {{k + 2 : k \in {k \in (i + Len("execute "))..(Len(s) - 2) :
                             /\ SubSeq(s, k + 1, k + 2) = ": "
                             /\ AllIn(SubSeq(s, i + Len("execute "), k), WordChars)}} :
           i \in starts}
\* ^lit.+
EndsLitSome(s, lit) ==
  IF HasPrefix(s, lit)
    THEN (Len(lit) + 1)..(Max(FirstLineStarts(s)) - 1)
    ELSE {}

RegexEnds(re, s) ==
  CASE re = "^connection authorized\\: " -> EndsLit(s, "connection authorized: ")
    [] re = "^connection received\\: " -> EndsLit(s, "connection received: ")
    [] re = "^disconnection\\: " -> EndsLit(s, "disconnection: ")
    [] re = "^.*statement\\: " -> EndsDotStarLit(s, "statement: ")
    [] re = "^duration\\: (\\d+)\\.(\\d+) ms$" -> EndsDuration(s)
    [] re = "^.*execute <unnamed>\\: " -> EndsDotStarLit(s, "execute <unnamed>: ")
    [] re = "^parameters\\: " -> EndsLit(s, "parameters: ")
    [] re = "^.*execute (\\w+)\\: " -> EndsNamedExecute(s)
    [] re = "^ERROR\\: .+" -> EndsLitSome(s, "ERROR: ")
    [] re = "^DETAIL\\: .+" -> EndsLitSome(s, "DETAIL: ")

\* regexp.MatchString
MatchString(re, s) == RegexEnds(re, s) # {}
\* len(regexp.FindString(s))
FindStringLen(re, s) == IF MatchString(re, s) THEN Max(RegexEnds(re, s)) ELSE 0

ParsedFromCsv == "csv"
ParsedFromErrLog == "errlog"
ActionLog == "LOG:  "
ActionDetail == "DETAIL:  "
ActionError == "ERROR:  "

LogMessage(actionType, statement, regex) ==
  [actionType |-> actionType, statement |-> statement, regex |-> regex]
LogConnectionAuthorized ==
  LogMessage(ActionLog, "connection authorized: ", "^connection authorized\\: ")
LogConnectionReceived ==
  LogMessage(ActionLog, "connection received: ", "^connection received\\: ")
LogConnectionDisconnect ==
  LogMessage(ActionLog, "disconnection: ", "^disconnection\\: ")
LogStatement == LogMessage(ActionLog, "statement: ", "^.*statement\\: ")
LogDuration ==
  LogMessage(ActionLog, "duration: ", "^duration\\: (\\d+)\\.(\\d+) ms$")
LogExtendedProtocolExecute ==
  LogMessage(ActionLog, "execute <unnamed>: ", "^.*execute <unnamed>\\: ")
LogExtendedProtocolParameters ==
  LogMessage(ActionDetail, "parameters: ", "^parameters\\: ")
LogNamedPrepareExecute ==
  LogMessage(ActionLog, "execute ", "^.*execute (\\w+)\\: ")
LogError == LogMessage(ActionError, "", "^ERROR\\: .+")
LogDetail == LogMessage(ActionDetail, "", "^DETAIL\\: .+")

\* func (lm LogMessage) Prefix(parsedFrom string) string
Prefix(lm, parsedFrom) ==
  IF parsedFrom = ParsedFromErrLog THEN lm.actionType \o lm.statement
                                   ELSE lm.statement

\* func (lm LogMessage) Match(logline, parsedFrom string) bool
Match(lm, logline, parsedFrom) ==
  MatchString(lm.regex,
              IF parsedFrom = ParsedFromErrLog
                THEN TrimPrefix(logline, lm.actionType) ELSE logline)

\* func (lm LogMessage) RenderQuery(msg, parsedFrom string) string
RenderQuery(lm, msg, parsedFrom) ==
  IF parsedFrom = ParsedFromCsv
    THEN Drop(msg, FindStringLen(lm.regex, msg))
    ELSE TrimPrefix(msg, Prefix(lm, parsedFrom))


(***************************************************************************)
(* time.Parse(PostgresTimestampFormat, s) with the layout                  *)
(* "2006-01-02 15:04:05.000 MST": the fields are read digit by digit and   *)
(* range-checked; the instant is kept as a day number and the milliseconds *)
(* within the day, which order instants as time.Time does (the zone        *)
(* abbreviation carries no offset).                                        *)
(***************************************************************************)
TimeFields(s) ==
  [year |-> SubSeq(s, 1, 4), month |-> SubSeq(s, 6, 7), day |-> SubSeq(s, 9, 10),
   hour |-> SubSeq(s, 12, 13), minute |-> SubSeq(s, 15, 16),
   second |-> SubSeq(s, 18, 19), milli |-> SubSeq(s, 21, 23),
   zone |-> Drop(s, 24)]

TimeParseOk(s) ==
  /\ Len(s) >= 27
  /\ At(s, 5) = "-" /\ At(s, 8) = "-" /\ At(s, 11) = " "
  /\ At(s, 14) = ":" /\ At(s, 17) = ":" /\ At(s, 20) = "." /\ At(s, 24) = " "
  /\ LET f == TimeFields(s) IN
       /\ \A k \in {"year", "month", "day", "hour", "minute", "second", "milli"} :
            AllIn(f[k], Digits)
       /\ Atoi(f.month) \in 1..12
       /\ Atoi(f.day) \in 1..31
       /\ Atoi(f.hour) \in 0..23
       /\ Atoi(f.minute) \in 0..59
       /\ Atoi(f.second) \in 0..59
       /\ Len(f.zone) \in 3..5
       /\ AllIn(f.zone, Upper)

TimeParse(s) ==
  LET f == TimeFields(s) IN
    [day |-> (Atoi(f.year) * 12 + Atoi(f.month)) * 31 + Atoi(f.day),
     ms  |-> ((Atoi(f.hour) * 60 + Atoi(f.minute)) * 60 + Atoi(f.second)) * 1000
             + Atoi(f.milli)]

(***************************************************************************)
(* ParseBindParameters, with the whole input in the scanner's buffer (the  *)
(* parsers pass a buffer of MaxLogLineSize bytes).                         *)
(***************************************************************************)
\* len(prefixMatcher.Find(data)) for ^(, )?\$\d+ =
PrefixMatcherLen(data) ==
  LET lead == IF HasPrefix(data, ", ") THEN 2 ELSE 0
      rest == Drop(data, lead)
      ends == {k \in 2..(Len(rest) - 3) :
                 /\ AllIn(SubSeq(rest, 2, k), Digits)
                 /\ SubSeq(rest, k + 1, k + 3) = " = "}
  IN  IF HasPrefix(rest, "$") /\ ends # {} THEN lead + Max(ends) + 3 ELSE 0

\* findClosingTag(input, marker, escapeSequence): the 0-based index of the
\* first marker that does not start an escapeSequence, or -1
RECURSIVE findClosingTagFrom(_, _, _, _)
findClosingTagFrom(input, marker, escapeSequence, idx) ==
  IF idx >= Len(input) THEN -1
  ELSE IF HasPrefix(Drop(input, idx), marker)
         THEN IF HasPrefix(Drop(input, idx), escapeSequence)
                THEN findClosingTagFrom(input, marker, escapeSequence,
                                        idx + Len(escapeSequence))
                ELSE idx
         ELSE findClosingTagFrom(input, marker, escapeSequence, idx + 1)

findClosingTag(input, marker, escapeSequence) ==
  findClosingTagFrom(input, marker, escapeSequence, 0)

\* the token that ends at the closing quote, when there is one
QuotedToken(data, advance, closingIdx) ==
  IF closingIdx = -1
    THEN [advance |-> 0, token |-> "",
          err |-> "could not find closing ' for parameter"]
    ELSE [advance |-> advance + 2 + closingIdx,
          token |-> SubSeq(data, advance + 1, advance + 2 + closingIdx),
          err |-> ""]

\* the token that follows a prefix of length advance
TokenAfterPrefix(data, advance) ==
  IF advance = 0
    THEN [advance |-> 0, token |-> "", err |-> "could not parse parameter"]
  ELSE IF HasPrefix(Drop(data, advance), "NULL")
    THEN [advance |-> advance + 4, token |-> "NULL", err |-> ""]
  ELSE IF advance + 1 > Len(data)
    THEN \* data[advance+1:] is out of range
         [advance |-> 0, token |-> "", err |-> "panic"]
  ELSE QuotedToken(data, advance,
                   findClosingTag(Drop(data, advance + 1), "'", "''"))

\* bindParametersSplitFunc(data, atEOF) for non-empty data
bindParametersSplitFunc(data) == TokenAfterPrefix(data, PrefixMatcherLen(data))

NullParam == [null |-> TRUE, v |-> ""]
StringParam(v) == [null |-> FALSE, v |-> v]

\* the token between its quotes, escapes kept
ParameterQuoted(token) ==
  IF token = "NULL" THEN NullParam
  ELSE StringParam(SubSeq(token, 2, Len(token) - 1))
\* the value appended to parameters for a token
Parameter(token) ==
  IF token = "NULL" THEN NullParam
  ELSE StringParam(ReplaceAll(SubSeq(token, 2, Len(token) - 1), "''", "'"))

Prepend(param, rest) ==
  [parameters |-> <<param>> \o rest.parameters, err |-> rest.err]

\* func ParseBindParameters(input string, buffer []byte) ([]interface{}, error)
RECURSIVE ParseBindParameters(_)
\* one round of the loop for scanner.Scan(): r is what the split function
\* returned for the rest of the input
ScanParameters(input, r) ==
  IF r.err # "" THEN [parameters |-> <<>>, err |-> r.err]
  ELSE Prepend(Parameter(r.token), ParseBindParameters(Drop(input, r.advance)))

ParseBindParameters(input) ==
  IF input = "" THEN [parameters |-> <<>>, err |-> ""]
  ELSE ScanParameters(input, bindParametersSplitFunc(input))

(***************************************************************************)
(* Items as the parsers build them.  Details carries, besides the four     *)
(* fields of the source, the number of the log record it was read from     *)
(* (line), which only the properties read.                                 *)
(***************************************************************************)
Details(ts, sid, user, db, line) ==
  [Timestamp |-> ts, SessionID |-> sid, User |-> user, Database |-> db,
   line |-> line]
NilItem == [type |-> "nil"]
Connect(d) == [type |-> "Connect", Details |-> d]
Disconnect(d) == [type |-> "Disconnect", Details |-> d]
Statement(d, query) == [type |-> "Statement", Details |-> d, Query |-> query]
Execute(d, query) == [type |-> "Execute", Details |-> d, Query |-> query]
\* func (e Execute) Bind(parameters []interface{}) BoundExecute: nil becomes
\* an empty list
Bind(e, parameters) ==
  [type |-> "BoundExecute", Details |-> e.Details, Query |-> e.Query,
   Parameters |-> parameters]

\* map[SessionID]*Execute
EmptyMap == [s \in {} |-> NilItem]
MapSet(m, k, v) == [x \in DOMAIN m \cup {k} |-> IF x = k THEN v ELSE m[x]]
MapDelete(m, k) == [x \in DOMAIN m \ {k} |-> m[x]]

Return(item, err, pending) == [item |-> item, err |-> err, unbounds |-> pending]

\* what the callers of ParseBindParameters return: an error when r holds
\* one, and otherwise e bound to the parameters of r
\* (a panic of the split function is no error value: it unwinds the caller)
BindParsed(e, r, failure, pending, bound) ==
  IF r.err = "panic"
    THEN Return(NilItem, "panic", pending)
  ELSE IF r.err # ""
    THEN Return(NilItem, failure \o r.err, pending)
    ELSE Return(Bind(e, r.parameters), "", bound)

\* func parseDetailToItem(el ExtractedLog, parsedFrom string,
\*                        unbounds map[SessionID]*Execute, buff []byte) (Item, error)
\* pending is the map unbounds; the result carries it as the call leaves it.
parseDetailToItem(el, parsedFrom, pending) ==
  LET sid == el.Details.SessionID
      parametersOf(text) ==
        ParseBindParameters(RenderQuery(LogExtendedProtocolParameters, text, parsedFrom))
  IN
  IF Match(LogDuration, el.Message, parsedFrom) THEN
    IF sid \in DOMAIN pending
      THEN Return(Bind(pending[sid], <<>>), "", MapDelete(pending, sid))
      ELSE Return(NilItem, "", pending)
  ELSE IF Match(LogStatement, el.Message, parsedFrom) THEN
    Return(Statement(el.Details, RenderQuery(LogStatement, el.Message, parsedFrom)),
           "", pending)
  ELSE IF Match(LogExtendedProtocolExecute, el.Message, parsedFrom) THEN
    IF parsedFrom = ParsedFromCsv
      THEN BindParsed(Execute(el.Details,
                              RenderQuery(LogExtendedProtocolExecute, el.Message, parsedFrom)),
                      parametersOf(el.Parameters),
                      "[UnNamedExecute]: failed to parse bind parameters: ",
                      pending, pending)
      ELSE Return(NilItem, "",
                  MapSet(pending, sid,
                         Execute(el.Details,
                                 RenderQuery(LogExtendedProtocolExecute, el.Message,
                                             parsedFrom))))
  ELSE IF Match(LogNamedPrepareExecute, el.Message, parsedFrom) THEN
    IF parsedFrom = ParsedFromCsv
      THEN BindParsed(Execute(el.Details,
                              RenderQuery(LogNamedPrepareExecute, el.Message, parsedFrom)),
                      parametersOf(el.Parameters),
                      "[NamedExecute]: failed to parse bind parameters: ",
                      pending, pending)
      ELSE Return(NilItem, "",
                  MapSet(pending, sid,
                         Execute(el.Details,
                                 SplitN(RenderQuery(LogNamedPrepareExecute, el.Message,
                                                    parsedFrom), ":", 2)[2])))
  ELSE IF Match(LogExtendedProtocolParameters, el.Message, parsedFrom) THEN
    IF sid \in DOMAIN pending
      THEN BindParsed(pending[sid], parametersOf(el.Message),
                      "failed to parse bind parameters: ",
                      pending, MapDelete(pending, sid))
      ELSE Return(NilItem,
             "cannot process bind parameters without previous execute item: " \o el.Message,
             pending)
  ELSE IF Match(LogConnectionAuthorized, el.Message, parsedFrom) THEN
    Return(Connect(el.Details), "", pending)
  ELSE IF Match(LogConnectionDisconnect, el.Message, parsedFrom) THEN
    Return(Disconnect(el.Details), "", pending)
  ELSE IF Match(LogConnectionReceived, el.Message, parsedFrom) THEN
    Return(NilItem, "", pending)
  ELSE IF el.ActionLog = "ERROR" \/ Match(LogError, el.Message, parsedFrom) THEN
    Return(NilItem, "", pending)
  ELSE IF el.ActionLog = "DETAIL" \/ Match(LogDetail, el.Message, parsedFrom) THEN
    Return(NilItem, "", pending)
  ELSE Return(NilItem, "no parser matches line: " \o el.Message, pending)

\* the body of ParseItem after tokens := strings.SplitN(logline, "|", 5)
ParseTokens(logline, tokens, pending, line) ==
  IF Len(tokens) # 5
    THEN Return(NilItem, "failed to parse log line: '" \o logline \o "'", pending)
  ELSE IF ~TimeParseOk(tokens[1])
    THEN Return(NilItem, "failed to parse log timestamp: '" \o tokens[1] \o "'", pending)
  ELSE parseDetailToItem(
         [Details |-> Details(TimeParse(tokens[1]), tokens[4], tokens[2], tokens[3], line),
          ActionLog |-> "", Message |-> tokens[5], Parameters |-> ""],
         ParsedFromErrLog, pending)

\* func ParseItem(logline string, unbounds map[SessionID]*Execute, buffer []byte) (Item, error)
\* line is the number of the record in the input.
ParseItem(logline, pending, line) ==
  ParseTokens(logline, SplitN(logline, "|", 5), pending, line)

(***************************************************************************)
(* ParseErrlog: the goroutine that reads the records of the log.  The      *)
(* records come from LogLines; receivers of errs and done are ready        *)
(* whenever the goroutine sends, and ItemsRecv is the consumer of items.   *)
(***************************************************************************)
LogPrefix(sid) == "2019-02-25 15:08:27.222 GMT|alice|pgreplay_test|" \o sid \o "|"

Messages ==
  {"LOG:  connection authorized: user=alice database=pgreplay_test",
   "LOG:  statement: select now()",
   "LOG:  execute <unnamed>: select $1",
   "LOG:  execute fetch_rows: select $1, $2",
   "LOG:  execute <unnamed>: select 'statement: '",
   "LOG:  execute einf\"ug: select $1",
   "DETAIL:  parameters: $1 = 'it''s', $2 = NULL",
   "DETAIL:  parameters: $1 = 'it",
   "LOG:  duration: 0.326 ms",
   "LOG:  duration: 0.968 ms  parse <unnamed>: select $1",
   "LOG:  disconnection: session time: 0:00:03.861",
   "LOG:  connection received: host=127.0.0.1 port=59103",
   "ERROR:  relation \"t\" does not exist at character 15",
   "DETAIL:  Unrecognized key word: \"t\".",
   "LOG:  checkpoint starting: time"}

\* what a second session, interleaved with the first, logs
OtherMessages ==
  {"LOG:  execute <unnamed>: select $1",
   "DETAIL:  parameters: $1 = 'it''s', $2 = NULL",
   "LOG:  duration: 0.326 ms"}

LogLines ==
  {LogPrefix("5c7404eb.d6bd") \o msg : msg \in Messages}
    \cup {LogPrefix("5c7404eb.d6be") \o msg : msg \in OtherMessages}
    \cup {LogPrefix("") \o "LOG:  statement: select 1"}
    \cup {"2019-02-25 15:08:27.100 GMT|alice|pgreplay_test|5c7404eb.d6bd|"
            \o "LOG:  execute <unnamed>: select 2"}
    \cup {"postgres is starting",
          "2019-02-25 15:08|alice|pgreplay_test|5c7404eb.d6bd|LOG:  statement: select 1"}

ScannerErrs == {"", "bufio.Scanner: token too long"}

InitP ==
  /\ parser = ""
  /\ csvLogline = <<>>
  /\ pPc = "new"
  /\ pRead = 0
  /\ unbounds = EmptyMap
  /\ pItem = NilItem
  /\ pErr = ""
  /\ pI = 0
  /\ scannerErr = ""
  /\ pItems = <<>>
  /\ pItemsClosed = FALSE
  /\ pErrsClosed = FALSE
  /\ pDoneClosed = FALSE
  /\ pLog = <<>>
  /\ pEmitted = <<>>
  /\ pErrors = <<>>
  /\ pDone = <<>>

\* the input formats of the run command: --errlog-input, --json-input,
\* --csvlog-input
Formats == {"errlog", "json", "csv"}

\* main: items = parseLog(path, parser) with the parser of the one format
\* given; the parser makes its channels and starts its goroutine
parseLog ==
  /\ pPc = "new"
  /\ \E f \in Formats : parser' = f
  /\ pPc' = "scan"
  /\ UNCHANGED <<pRead, unbounds, pItem, pErr, pI, scannerErr, pItems,
                 pItemsClosed, pErrsClosed, pDoneClosed, pLog, pEmitted,
                 pErrors, pDone>>
  /\ UNCHANGED <<varsFn, varsC, varsS, csvLogline>>

\* (variant: an error of ParseItem is dropped, not sent)
AfterParseDropsErr(item, err) ==
  IF err = "panic" THEN "panicked"
  ELSE IF item.type # "nil" THEN "sendItem" ELSE "scan"
\* where the loop body goes once ParseItem has returned (item, err)
AfterParse(item, err) ==
  IF err = "panic" THEN "panicked"
  ELSE IF err # "" THEN "sendErr"
  ELSE IF item.type # "nil" THEN "sendItem" ELSE "scan"

\* scanner.Scan() yields a record; item, err := ParseItem(scanner.Text(), ...)
ParseErrlogScan ==
  /\ parser = "errlog"
  /\ pPc = "scan"
  /\ pRead < MaxLines
  /\ \E logline \in LogLines :
       \E r \in {ParseItem(logline, unbounds, pRead + 1)} :
         /\ pLog' = Append(pLog, logline)
         /\ unbounds' = r.unbounds
         /\ pItem' = r.item
         /\ pErr' = r.err
         /\ pPc' = AfterParse(r.item, r.err)
  /\ pRead' = pRead + 1
  /\ UNCHANGED <<pI, scannerErr, pItems, pItemsClosed, pErrsClosed,
                 pDoneClosed, pEmitted, pErrors, pDone>>
  /\ UNCHANGED <<varsFn, varsC, varsS, parser, csvLogline>>

\* errs <- err
ParseErrlogSendErr ==
  /\ parser = "errlog"
  /\ pPc = "sendErr"
  /\ pErrors' = Append(pErrors, pErr)
  /\ pErr' = ""
  /\ pPc' = AfterParse(pItem, "")
  /\ UNCHANGED <<pRead, unbounds, pItem, pI, scannerErr, pItems, pItemsClosed,
                 pErrsClosed, pDoneClosed, pLog, pEmitted, pDone>>
  /\ UNCHANGED <<varsFn, varsC, varsS, parser, csvLogline>>

\* items <- item
ParseErrlogSendItem ==
  /\ parser = "errlog"
  /\ pPc = "sendItem"
  /\ Len(pItems) < ItemBufferSize
  /\ pItems' = Append(pItems, pItem)
  /\ pEmitted' = Append(pEmitted, pItem)
  /\ pItem' = NilItem
  /\ pPc' = "scan"
  /\ UNCHANGED <<pRead, unbounds, pErr, pI, scannerErr, pItemsClosed,
                 pErrsClosed, pDoneClosed, pLog, pErrors, pDone>>
  /\ UNCHANGED <<varsFn, varsC, varsS, parser, csvLogline>>

\* scanner.Scan() returns false: end of input, or an error of the scanner
ParseErrlogScanEnd ==
  /\ parser = "errlog"
  /\ pPc = "scan"
  /\ \E e \in ScannerErrs : scannerErr' = e
  /\ pI' = 0
  /\ pPc' = "flush"
  /\ UNCHANGED <<pRead, unbounds, pItem, pErr, pItems, pItemsClosed,
                 pErrsClosed, pDoneClosed, pLog, pEmitted, pErrors, pDone>>
  /\ UNCHANGED <<varsFn, varsC, varsS, parser, csvLogline>>

\* (variant: the flush sends an Execute that is still pending)
FlushValuePending(pending) ==
  IF DOMAIN pending = {} THEN NilItem
  ELSE pending[CHOOSE s \in DOMAIN pending : TRUE]
\* items <- nil: what the flush loop sends, whatever is still in unbounds
FlushValue(pending) == NilItem

\* for i := 0; i < ItemBufferSize; i++ { items <- nil }
ParseErrlogFlush ==
  /\ parser = "errlog"
  /\ pPc = "flush"
  /\ pI < ItemBufferSize
  /\ Len(pItems) < ItemBufferSize
  /\ pItems' = Append(pItems, FlushValue(unbounds))
  /\ pEmitted' = IF FlushValue(unbounds) = NilItem THEN pEmitted
                  ELSE Append(pEmitted, FlushValue(unbounds))
  /\ pI' = pI + 1
  /\ UNCHANGED <<pPc, pRead, unbounds, pItem, pErr, scannerErr, pItemsClosed,
                 pErrsClosed, pDoneClosed, pLog, pErrors, pDone>>
  /\ UNCHANGED <<varsFn, varsC, varsS, parser, csvLogline>>

\* close(items)
ParseErrlogCloseItems ==
  /\ parser = "errlog"
  /\ pPc = "flush"
  /\ pI = ItemBufferSize
  /\ pItemsClosed' = TRUE
  /\ pPc' = "closeErrs"
  /\ UNCHANGED <<pRead, unbounds, pItem, pErr, pI, scannerErr, pItems,
                 pErrsClosed, pDoneClosed, pLog, pEmitted, pErrors, pDone>>
  /\ UNCHANGED <<varsFn, varsC, varsS, parser, csvLogline>>

\* (variant: errs is left open)
ParseErrlogLeaveErrs ==
  /\ parser = "errlog"
  /\ pPc = "closeErrs"
  /\ pPc' = "sendDone"
  /\ UNCHANGED <<pRead, unbounds, pItem, pErr, pI, scannerErr, pItems,
                 pItemsClosed, pErrsClosed, pDoneClosed, pLog, pEmitted,
                 pErrors, pDone>>
  /\ UNCHANGED <<varsFn, varsC, varsS, parser, csvLogline>>
\* close(errs)
ParseErrlogCloseErrs ==
  /\ parser = "errlog"
  /\ pPc = "closeErrs"
  /\ pErrsClosed' = TRUE
  /\ pPc' = "sendDone"
  /\ UNCHANGED <<pRead, unbounds, pItem, pErr, pI, scannerErr, pItems,
                 pItemsClosed, pDoneClosed, pLog, pEmitted, pErrors, pDone>>
  /\ UNCHANGED <<varsFn, varsC, varsS, parser, csvLogline>>

\* done <- scanner.Err()
ParseErrlogSendDone ==
  /\ parser = "errlog"
  /\ pPc = "sendDone"
  /\ pDone' = Append(pDone, scannerErr)
  /\ pPc' = "closeDone"
  /\ UNCHANGED <<pRead, unbounds, pItem, pErr, pI, scannerErr, pItems,
                 pItemsClosed, pErrsClosed, pDoneClosed, pLog, pEmitted,
                 pErrors>>
  /\ UNCHANGED <<varsFn, varsC, varsS, parser, csvLogline>>

\* close(done)
ParseErrlogCloseDone ==
  /\ parser = "errlog"
  /\ pPc = "closeDone"
  /\ pDoneClosed' = TRUE
  /\ pPc' = "finished"
  /\ UNCHANGED <<pRead, unbounds, pItem, pErr, pI, scannerErr, pItems,
                 pItemsClosed, pErrsClosed, pLog, pEmitted, pErrors, pDone>>
  /\ UNCHANGED <<varsFn, varsC, varsS, parser, csvLogline>>

(***************************************************************************)
(* ParseJSON: the goroutine that reads a file of items serialised one per  *)
(* line.  The lines are in the compact form ItemMarshalJSON writes: an     *)
(* envelope {"type":T,"item":{...}} whose members hold no escaped quote.   *)
(***************************************************************************)
\* the index of the quote that closes the string whose body starts at i
\* (0 when the text ends first); a backslash takes the next byte with it
RECURSIVE JsonStringEnd(_, _)
JsonStringEnd(text, i) ==
  IF i > Len(text) THEN 0
  ELSE IF At(text, i) = "\"" THEN i
  ELSE IF At(text, i) = "\\" THEN JsonStringEnd(text, i + 2)
  ELSE JsonStringEnd(text, i + 1)

\* every string that opens in text from i on is closed
RECURSIVE JsonStringsClosed(_, _)
JsonStringsClosed(text, i) ==
  IF ~Contains(Drop(text, i - 1), "\"") THEN TRUE
  ELSE LET open == i - 1 + Min(Occurrences(Drop(text, i - 1), "\""))
           close == JsonStringEnd(text, open + 1)
       IN  close # 0 /\ JsonStringsClosed(text, close + 1)

\* a JSON text that is one object: braces around, every string closed
JsonObject(text) ==
  /\ HasPrefix(text, "{")
  /\ Len(text) >= 2
  /\ At(text, Len(text)) = "}"
  /\ JsonStringsClosed(text, 1)

\* the character an escape \c stands for, and the one \uXXXX stands for
\* (the escapes json.Marshal writes, and \/)
JsonEscaped(ch) == CASE ch = "n" -> "\n" [] ch = "t" -> "\t" [] OTHER -> ch
JsonRune(hex) ==
  CASE hex = "003c" -> "<" [] hex = "003e" -> ">" [] hex = "0026" -> "&"
    [] OTHER -> "?"

\* the text a string body stands for: every escape replaced
RECURSIVE JsonUnescape(_)
JsonUnescape(body) ==
  IF ~Contains(body, "\\") THEN body
  ELSE LET i == Min(Occurrences(body, "\\")) IN
       IF At(body, i + 1) = "u"
         THEN Take(body, i - 1) \o JsonRune(SubSeq(body, i + 2, i + 5))
                \o JsonUnescape(Drop(body, i + 5))
         ELSE Take(body, i - 1) \o JsonEscaped(At(body, i + 1))
                \o JsonUnescape(Drop(body, i + 1))

\* the string member key of an object ("" when the object has none: the
\* field of the Go struct keeps its zero value)
JsonString(obj, key) ==
  LET tag == "\"" \o key \o "\":\"" IN
  IF ~Contains(obj, tag) THEN ""
  ELSE LET rest == Drop(obj, Min(Occurrences(obj, tag)) + Len(tag) - 1)
       IN  JsonUnescape(Take(rest, JsonStringEnd(rest, 1) - 1))

\* the member "item" of the envelope as a stdjson.RawMessage ("" when the
\* envelope has none)
JsonRawItem(payload) ==
  IF ~Contains(payload, "\"item\":") THEN ""
  ELSE SubSeq(payload,
              Min(Occurrences(payload, "\"item\":")) + Len("\"item\":"),
              Len(payload) - 1)

\* the elements of a list from position i to its closing bracket: null is
\* nil and a JSON string is a string
RECURSIVE JsonList(_, _)
JsonList(text, i) ==
  IF i > Len(text) \/ At(text, i) = "]" THEN <<>>
  ELSE IF At(text, i) = "," THEN JsonList(text, i + 1)
  ELSE IF SubSeq(text, i, i + 3) = "null"
    THEN <<NullParam>> \o JsonList(text, i + 4)
  ELSE IF At(text, i) = "\""
    THEN <<StringParam(JsonUnescape(SubSeq(text, i + 1, JsonStringEnd(text, i + 1) - 1)))>>
           \o JsonList(text, JsonStringEnd(text, i + 1) + 1)
  ELSE <<>>

\* the member "parameters": a list, or null or missing for a nil slice
JsonParameters(obj) ==
  LET tag == "\"parameters\":[" IN
  IF ~Contains(obj, tag) THEN <<>>
  ELSE JsonList(obj, Min(Occurrences(obj, tag)) + Len(tag))

\* time.Time.UnmarshalJSON: an RFC 3339 instant, here in the forms
\* 2006-01-02T15:04:05Z and 2006-01-02T15:04:05.9Z, with up to nine digits
\* after the point, that a time with no offset is written in; the instant
\* is kept to the millisecond
JsonFraction(text) == SubSeq(text, 21, Len(text) - 1)
AsPostgresTimestamp(text) ==
  Take(text, 10) \o " " \o SubSeq(text, 12, 19) \o "."
    \o Take(JsonFraction(text) \o "000", 3) \o " UTC"
JsonTimeOk(text) ==
  /\ Len(text) >= 20
  /\ At(text, 11) = "T"
  /\ At(text, Len(text)) = "Z"
  /\ \/ Len(text) = 20
     \/ /\ At(text, 20) = "."
        /\ Len(JsonFraction(text)) \in 1..9
        /\ AllIn(JsonFraction(text), Digits)
  /\ TimeParseOk(AsPostgresTimestamp(text))
\* the zero time.Time, January 1 of year 1
ZeroTime == TimeParse("0001-01-01 00:00:00.000 UTC")

\* json.Unmarshal(envelope.Item, item) for the item of the given label
JsonItem(label, raw, line) ==
  LET d == Details(IF Contains(raw, "\"timestamp\":\"") /\ JsonTimeOk(JsonString(raw, "timestamp"))
                     THEN TimeParse(AsPostgresTimestamp(JsonString(raw, "timestamp")))
                     ELSE ZeroTime,
                   JsonString(raw, "session_id"), JsonString(raw, "user"),
                   JsonString(raw, "database"), line)
  IN  CASE label = "Connect" -> Connect(d)
        [] label = "Disconnect" -> Disconnect(d)
        [] label = "Statement" -> Statement(d, JsonString(raw, "query"))
        [] label = "BoundExecute" ->
             [type |-> "BoundExecute", Details |-> d,
              Query |-> JsonString(raw, "query"),
              Parameters |-> JsonParameters(raw)]

\* func ItemUnmarshalJSON(payload []byte) (Item, error)
\* (the last return hands back the item together with the error of the
\* second Unmarshal)
ItemUnmarshalJSON(payload, line) ==
  IF ~JsonObject(payload)
    THEN [item |-> NilItem, err |-> "json: cannot decode the envelope"]
  ELSE IF JsonString(payload, "type") \notin {"Connect", "Statement", "BoundExecute", "Disconnect"}
    THEN [item |-> NilItem,
          err |-> "did not recognise type: " \o JsonString(payload, "type")]
  ELSE IF ~JsonObject(JsonRawItem(payload))
    THEN [item |-> JsonItem(JsonString(payload, "type"), "{}", line),
          err |-> "json: cannot decode the item"]
  ELSE IF /\ Contains(JsonRawItem(payload), "\"timestamp\":\"")
          /\ ~JsonTimeOk(JsonString(JsonRawItem(payload), "timestamp"))
    THEN [item |-> JsonItem(JsonString(payload, "type"), JsonRawItem(payload), line),
          err |-> "json: cannot parse the timestamp"]
  ELSE [item |-> JsonItem(JsonString(payload, "type"), JsonRawItem(payload), line),
        err |-> ""]

JsonDetails(sid) ==
  "\"timestamp\":\"2019-02-25T15:08:27.222Z\",\"session_id\":\"" \o sid
    \o "\",\"user\":\"alice\",\"database\":\"pgreplay_test\""

\* lines that hold a serialised item
JsonItemLines ==
  {"{\"type\":\"Connect\",\"item\":{" \o JsonDetails("5c7404eb.d6bd") \o "}}",
   "{\"type\":\"Statement\",\"item\":{" \o JsonDetails("5c7404eb.d6bd")
     \o ",\"query\":\"select now()\"}}",
   "{\"type\":\"BoundExecute\",\"item\":{" \o JsonDetails("5c7404eb.d6bd")
     \o ",\"query\":\"select $1, $2\",\"parameters\":[\"alice\",\"bob\"]}}",
   "{\"type\":\"Disconnect\",\"item\":{" \o JsonDetails("5c7404eb.d6be") \o "}}",
   "{\"type\":\"Statement\",\"item\":{\"query\":\"select 1\"}}"}

\* lines that do not decode: an empty line, a truncated line, a type that
\* is no item type, an item that is no object, a timestamp in the layout
\* of the stderr log
JsonBadLines ==
  {"",
   "{\"type\":\"Statement\",\"item\":{" \o JsonDetails("5c7404eb.d6bd"),
   "{\"type\":\"Execute\",\"item\":{" \o JsonDetails("5c7404eb.d6bd")
     \o ",\"query\":\"select 1\"}}",
   "{\"type\":\"Statement\",\"item\":\"select 1\"}",
   "{\"type\":\"Statement\",\"item\":{\"timestamp\":\"2019-02-25 15:08:27.222 GMT\","
     \o "\"session_id\":\"5c7404eb.d6bd\",\"query\":\"select 1\"}}"}

JsonLines == JsonItemLines \cup JsonBadLines

\* scanner.Scan() yields a line; item, err := ItemUnmarshalJSON([]byte(line))
ParseJSONScan ==
  /\ parser = "json"
  /\ pPc = "scan"
  /\ pRead < MaxLines
  /\ \E line \in JsonLines :
       \E r \in {ItemUnmarshalJSON(line, pRead + 1)} :
         /\ pLog' = Append(pLog, line)
         /\ pItem' = r.item
         /\ pErr' = r.err
         /\ pPc' = IF r.err # "" THEN "sendErr" ELSE "sendItem"
  /\ pRead' = pRead + 1
  /\ UNCHANGED <<unbounds, pI, scannerErr, pItems, pItemsClosed, pErrsClosed,
                 pDoneClosed, pEmitted, pErrors, pDone>>
  /\ UNCHANGED <<varsFn, varsC, varsS, parser, csvLogline>>

\* if err != nil { errs <- err }: the item that came with the error is
\* dropped with the turn of the loop
ParseJSONSendErr ==
  /\ parser = "json"
  /\ pPc = "sendErr"
  /\ pErrors' = Append(pErrors, pErr)
  /\ pErr' = ""
  /\ pItem' = NilItem
  /\ pPc' = "scan"
  /\ UNCHANGED <<pRead, unbounds, pI, scannerErr, pItems, pItemsClosed,
                 pErrsClosed, pDoneClosed, pLog, pEmitted, pDone>>
  /\ UNCHANGED <<varsFn, varsC, varsS, parser, csvLogline>>

\* else { items <- item }
ParseJSONSendItem ==
  /\ parser = "json"
  /\ pPc = "sendItem"
  /\ Len(pItems) < ItemBufferSize
  /\ pItems' = Append(pItems, pItem)
  /\ pEmitted' = Append(pEmitted, pItem)
  /\ pItem' = NilItem
  /\ pPc' = "scan"
  /\ UNCHANGED <<pRead, unbounds, pErr, pI, scannerErr, pItemsClosed,
                 pErrsClosed, pDoneClosed, pLog, pErrors, pDone>>
  /\ UNCHANGED <<varsFn, varsC, varsS, parser, csvLogline>>

\* scanner.Scan() returns false: end of input, or an error of the scanner
ParseJSONScanEnd ==
  /\ parser = "json"
  /\ pPc = "scan"
  /\ \E e \in ScannerErrs : scannerErr' = e
  /\ pPc' = "closeItems"
  /\ UNCHANGED <<pRead, unbounds, pItem, pErr, pI, pItems, pItemsClosed,
                 pErrsClosed, pDoneClosed, pLog, pEmitted, pErrors, pDone>>
  /\ UNCHANGED <<varsFn, varsC, varsS, parser, csvLogline>>

\* close(items): ParseJSON sends no nil item before
ParseJSONCloseItems ==
  /\ parser = "json"
  /\ pPc = "closeItems"
  /\ pItemsClosed' = TRUE
  /\ pPc' = "closeErrs"
  /\ UNCHANGED <<pRead, unbounds, pItem, pErr, pI, scannerErr, pItems,
                 pErrsClosed, pDoneClosed, pLog, pEmitted, pErrors, pDone>>
  /\ UNCHANGED <<varsFn, varsC, varsS, parser, csvLogline>>

\* close(errs)
ParseJSONCloseErrs ==
  /\ parser = "json"
  /\ pPc = "closeErrs"
  /\ pErrsClosed' = TRUE
  /\ pPc' = "sendDone"
  /\ UNCHANGED <<pRead, unbounds, pItem, pErr, pI, scannerErr, pItems,
                 pItemsClosed, pDoneClosed, pLog, pEmitted, pErrors, pDone>>
  /\ UNCHANGED <<varsFn, varsC, varsS, parser, csvLogline>>

\* done <- scanner.Err()
ParseJSONSendDone ==
  /\ parser = "json"
  /\ pPc = "sendDone"
  /\ pDone' = Append(pDone, scannerErr)
  /\ pPc' = "closeDone"
  /\ UNCHANGED <<pRead, unbounds, pItem, pErr, pI, scannerErr, pItems,
                 pItemsClosed, pErrsClosed, pDoneClosed, pLog, pEmitted,
                 pErrors>>
  /\ UNCHANGED <<varsFn, varsC, varsS, parser, csvLogline>>

\* close(done)
ParseJSONCloseDone ==
  /\ parser = "json"
  /\ pPc = "closeDone"
  /\ pDoneClosed' = TRUE
  /\ pPc' = "finished"
  /\ UNCHANGED <<pRead, unbounds, pItem, pErr, pI, scannerErr, pItems,
                 pItemsClosed, pErrsClosed, pLog, pEmitted, pErrors, pDone>>
  /\ UNCHANGED <<varsFn, varsC, varsS, parser, csvLogline>>

(***************************************************************************)
(* ParseCsvLog: the goroutine that reads the records of a log written with *)
(* log_destination='csvlog'.  reader.Read() hands over the fields of one   *)
(* record, an error with what it could read, or io.EOF.                    *)
(***************************************************************************)
\* fmt.Sprintf("%s", logline) for a []string
RECURSIVE JoinFields(_)
JoinFields(fields) ==
  IF fields = <<>> THEN ""
  ELSE IF Len(fields) = 1 THEN fields[1]
  ELSE fields[1] \o " " \o JoinFields(Tail(fields))

\* func ParseCsvItem(logline []string, unbounds map[SessionID]*Execute, buffer []byte) (Item, error)
\* line is the number of the record in the input.
ParseCsvItem(fields, pending, line) ==
  IF Len(fields) < 15
    THEN Return(NilItem, "failed to parse log line: '[" \o JoinFields(fields) \o "]'",
                pending)
  ELSE IF ~TimeParseOk(fields[1])
    THEN Return(NilItem, "failed to parse log timestamp: '" \o fields[1] \o "'", pending)
  ELSE parseDetailToItem(
         [Details |-> Details(TimeParse(fields[1]), fields[6], fields[2], fields[3], line),
          ActionLog |-> fields[12], Message |-> fields[14], Parameters |-> fields[15]],
         ParsedFromCsv, pending)

\* a record of the csvlog, as PostgreSQL writes it: 23 fields, the session
\* in the sixth, the severity in the twelfth, the message in the
\* fourteenth and the detail in the fifteenth
CsvRecord(ts, sid, severity, msg, detail) ==
  <<ts, "alice", "pgreplay_test", "7283", "127.0.0.1:57426", sid, "6374",
    "SELECT", ts, "4/286618", "0", severity, "00000", msg, detail,
    "", "", "", "", "", "", "", "client backend">>

CsvMessages ==
  {<<"LOG", "connection authorized: user=alice database=pgreplay_test", "">>,
   <<"LOG", "statement: select now()", "">>,
   <<"LOG", "execute <unnamed>: select 1", "">>,
   <<"LOG", "execute <unnamed>: select $1", "parameters: $1 = 'alice'">>,
   <<"LOG", "execute fetch_rows: select $1, $2", "parameters: $1 = 'it''s', $2 = NULL">>,
   <<"LOG", "execute <unnamed>: select 'statement: '", "">>,
   <<"LOG", "duration: 0.029 ms  execute <unnamed>: select $1", "parameters: $1 = 'alice'">>,
   <<"LOG", "duration: 0.031 ms  statement: select now()", "">>,
   <<"LOG", "duration: 0.326 ms", "">>,
   <<"LOG", "disconnection: session time: 0:00:03.861", "">>,
   <<"ERROR", "relation \"t\" does not exist", "">>}

\* what reader.Read() returns for a record: the fields and no error, or,
\* for a record it cannot read, nil and an error
CsvReads ==
  {[fields |-> CsvRecord("2019-02-25 15:08:27.222 GMT", "6480e39e.1c73", m[1], m[2], m[3]),
    err |-> ""] : m \in CsvMessages}
    \cup {[fields |-> CsvRecord("2019-02-25 15:08:27.222 GMT", "", "LOG",
                                "statement: select 1", ""),
           err |-> ""],
          [fields |-> CsvRecord("2019-02-25 15:08", "6480e39e.1c73", "LOG",
                                "statement: select 1", ""),
           err |-> ""],
          [fields |-> <<"postgres is starting">>, err |-> ""],
          [fields |-> <<>>,
           err |-> "parse error on line 1, column 7: bare \" in non-quoted-field"]}

\* logline, err := reader.Read(), with no io.EOF; without an error of the
\* reader the turn goes on to item, err := ParseCsvItem(logline, ...)
ParseCsvLogRead ==
  /\ parser = "csv"
  /\ pPc = "scan"
  /\ pRead < MaxLines
  /\ \E rd \in CsvReads :
       /\ csvLogline' = rd.fields
       /\ pLog' = Append(pLog, JoinFields(rd.fields))
       /\ IF rd.err # ""
            THEN /\ pErr' = rd.err
                 /\ pPc' = "sendReadErr"
                 /\ UNCHANGED <<pItem, unbounds>>
            ELSE \E r \in {ParseCsvItem(rd.fields, unbounds, pRead + 1)} :
                   /\ unbounds' = r.unbounds
                   /\ pItem' = r.item
                   /\ pErr' = r.err
                   /\ pPc' = AfterParse(r.item, r.err)
  /\ pRead' = pRead + 1
  /\ UNCHANGED <<pI, scannerErr, pItems, pItemsClosed, pErrsClosed,
                 pDoneClosed, pEmitted, pErrors, pDone>>
  /\ UNCHANGED <<varsFn, varsC, varsS, parser>>

\* errs <- err for the error of the reader, and then, with the same
\* logline, item, err := ParseCsvItem(logline, unbounds, parsebuffer)
ParseCsvLogSendReadErr ==
  /\ parser = "csv"
  /\ pPc = "sendReadErr"
  /\ pErrors' = Append(pErrors, pErr)
  /\ \E r \in {ParseCsvItem(csvLogline, unbounds, pRead)} :
       /\ unbounds' = r.unbounds
       /\ pItem' = r.item
       /\ pErr' = r.err
       /\ pPc' = AfterParse(r.item, r.err)
  /\ UNCHANGED <<pRead, pI, scannerErr, pItems, pItemsClosed, pErrsClosed,
                 pDoneClosed, pLog, pEmitted, pDone, csvLogline>>
  /\ UNCHANGED <<varsFn, varsC, varsS, parser>>

\* errs <- err for the error of ParseCsvItem
ParseCsvLogSendErr ==
  /\ parser = "csv"
  /\ pPc = "sendErr"
  /\ pErrors' = Append(pErrors, pErr)
  /\ pErr' = ""
  /\ pPc' = AfterParse(pItem, "")
  /\ UNCHANGED <<pRead, unbounds, pItem, pI, scannerErr, pItems, pItemsClosed,
                 pErrsClosed, pDoneClosed, pLog, pEmitted, pDone, csvLogline>>
  /\ UNCHANGED <<varsFn, varsC, varsS, parser>>

\* items <- item
ParseCsvLogSendItem ==
  /\ parser = "csv"
  /\ pPc = "sendItem"
  /\ Len(pItems) < ItemBufferSize
  /\ pItems' = Append(pItems, pItem)
  /\ pEmitted' = Append(pEmitted, pItem)
  /\ pItem' = NilItem
  /\ pPc' = "scan"
  /\ UNCHANGED <<pRead, unbounds, pErr, pI, scannerErr, pItemsClosed,
                 pErrsClosed, pDoneClosed, pLog, pErrors, pDone, csvLogline>>
  /\ UNCHANGED <<varsFn, varsC, varsS, parser>>

\* reader.Read() returns io.EOF: break
ParseCsvLogEOF ==
  /\ parser = "csv"
  /\ pPc = "scan"
  /\ csvLogline' = <<>>
  /\ pI' = 0
  /\ pPc' = "flush"
  /\ UNCHANGED <<pRead, unbounds, pItem, pErr, scannerErr, pItems, pItemsClosed,
                 pErrsClosed, pDoneClosed, pLog, pEmitted, pErrors, pDone>>
  /\ UNCHANGED <<varsFn, varsC, varsS, parser>>

\* for i := 0; i < ItemBufferSize; i++ { items <- nil }
ParseCsvLogFlush ==
  /\ parser = "csv"
  /\ pPc = "flush"
  /\ pI < ItemBufferSize
  /\ Len(pItems) < ItemBufferSize
  /\ pItems' = Append(pItems, NilItem)
  /\ pI' = pI + 1
  /\ UNCHANGED <<pPc, pRead, unbounds, pItem, pErr, scannerErr, pItemsClosed,
                 pErrsClosed, pDoneClosed, pLog, pEmitted, pErrors, pDone,
                 csvLogline>>
  /\ UNCHANGED <<varsFn, varsC, varsS, parser>>

\* close(items)
ParseCsvLogCloseItems ==
  /\ parser = "csv"
  /\ pPc = "flush"
  /\ pI = ItemBufferSize
  /\ pItemsClosed' = TRUE
  /\ pPc' = "closeErrs"
  /\ UNCHANGED <<pRead, unbounds, pItem, pErr, pI, scannerErr, pItems,
                 pErrsClosed, pDoneClosed, pLog, pEmitted, pErrors, pDone,
                 csvLogline>>
  /\ UNCHANGED <<varsFn, varsC, varsS, parser>>

\* close(errs)
ParseCsvLogCloseErrs ==
  /\ parser = "csv"
  /\ pPc = "closeErrs"
  /\ pErrsClosed' = TRUE
  /\ pPc' = "closeDone"
  /\ UNCHANGED <<pRead, unbounds, pItem, pErr, pI, scannerErr, pItems,
                 pItemsClosed, pDoneClosed, pLog, pEmitted, pErrors, pDone,
                 csvLogline>>
  /\ UNCHANGED <<varsFn, varsC, varsS, parser>>

\* close(done): ParseCsvLog sends nothing on done before
ParseCsvLogCloseDone ==
  /\ parser = "csv"
  /\ pPc = "closeDone"
  /\ pDoneClosed' = TRUE
  /\ pPc' = "finished"
  /\ UNCHANGED <<pRead, unbounds, pItem, pErr, pI, scannerErr, pItems,
                 pItemsClosed, pErrsClosed, pLog, pEmitted, pErrors, pDone,
                 csvLogline>>
  /\ UNCHANGED <<varsFn, varsC, varsS, parser>>

\* the consumer of items receives the value at the head of the buffer
ItemsRecv ==
  /\ pItems # <<>>
  /\ pItems' = Tail(pItems)
  /\ UNCHANGED <<pPc, pRead, unbounds, pItem, pErr, pI, scannerErr,
                 pItemsClosed, pErrsClosed, pDoneClosed, pLog, pEmitted,
                 pErrors, pDone>>
  /\ UNCHANGED <<varsFn, varsC, varsS, parser, csvLogline>>

NextParse ==
  \/ parseLog
  \/ ParseErrlogScan
  \/ ParseErrlogSendErr
  \/ ParseErrlogSendItem
  \/ ParseErrlogScanEnd
  \/ ParseErrlogFlush
  \/ ParseErrlogCloseItems
  \/ ParseErrlogCloseErrs
  \/ ParseErrlogSendDone
  \/ ParseErrlogCloseDone
  \/ ParseJSONScan
  \/ ParseJSONSendErr
  \/ ParseJSONSendItem
  \/ ParseJSONScanEnd
  \/ ParseJSONCloseItems
  \/ ParseJSONCloseErrs
  \/ ParseJSONSendDone
  \/ ParseJSONCloseDone
  \/ ParseCsvLogRead
  \/ ParseCsvLogSendReadErr
  \/ ParseCsvLogSendErr
  \/ ParseCsvLogSendItem
  \/ ParseCsvLogEOF
  \/ ParseCsvLogFlush
  \/ ParseCsvLogCloseItems
  \/ ParseCsvLogCloseErrs
  \/ ParseCsvLogCloseDone
  \/ ItemsRecv

(***************************************************************************)
(* The streamer: NewStreamer(start, finish, logger).Stream(items, rate).   *)
(* Stream's goroutine calls Filter, whose start loop runs in that          *)
(* goroutine and whose second loop runs in a goroutine of its own, and     *)
(* then paces the filtered items onto its unbuffered output channel.       *)
(* Time is counted in ticks of time.Duration; the wall clock is now.       *)
(***************************************************************************)
\* a *time.Time: nil, or a pointer to an instant
NilTime == <<>>
Ptr(t) == <<t>>
Deref(p) == p[1]

\* the timestamps of the items in a log
Timestamps == {k * TsUnit : k \in 0..MaxTs}
\* values of --start and --finish
StartOptions == {NilTime} \cup {Ptr(k * TsUnit) : k \in 0..(MaxTs - 1)}
FinishOptions == {NilTime} \cup {Ptr(k * TsUnit) : k \in 1..MaxTs}
\* values of --replay-rate, as numerators over RateDen: -1, 0, 0.5, 1, 1.5, 2
Rates == {0 - RateDen} \cup (0..(2 * RateDen))

\* an item as the streamer sees it: its place in the input, whether it is
\* the nil Item, and GetTimestamp()
StreamItem(k, t) == [pos |-> k, nil |-> FALSE, ts |-> t]
StreamNil(k) == [pos |-> k, nil |-> TRUE, ts |-> 0]
NoStreamItem == [pos |-> 0, nil |-> TRUE, ts |-> 0]
\* what the items channel may yield next
NextItems == {StreamNil(Len(sInput) + 1)}
               \cup {StreamItem(Len(sInput) + 1, t) : t \in Timestamps}

InitS ==
  /\ now = 0
  /\ sInput = <<>>
  /\ sInClosed = FALSE
  /\ sStart = NilTime
  /\ sFinish = NilTime
  /\ sRate = RateDen
  /\ sPc = "new"
  /\ sItem = NoStreamItem
  /\ sSeen = FALSE
  /\ sFirst = 0
  /\ sWall = 0
  /\ sWake = 0
  /\ sDelay = 0
  /\ sReal = 0
  /\ fPc = "none"
  /\ fItem = NoStreamItem
  /\ fOut = <<>>
  /\ fOutClosed = FALSE
  /\ fSent = <<>>
  /\ sOutClosed = FALSE
  /\ sEmitted = <<>>
  /\ sRet = [out |-> "", err |-> ""]
  /\ cancelled = FALSE

\* t.After(u)
After(t, u) == t > u
\* t.Sub(u)
Sub(t, u) == t - u

\* the wall clock advances by one tick
Tick ==
  /\ now < (IF sSeen THEN MaxNow ELSE MaxLead)
  /\ now' = now + 1
  /\ UNCHANGED <<sInput, sInClosed, sStart, sFinish, sRate, sPc, sItem,
                 sSeen, sFirst, sWall, sWake, sDelay, sReal, fPc, fItem,
                 fOut, fOutClosed, fSent, sOutClosed, sEmitted>>
  /\ UNCHANGED <<varsFn, varsC, varsP, cancelled, sRet>>

\* the parser closes the items channel
UpstreamClose ==
  /\ ~sInClosed
  /\ sInClosed' = TRUE
  /\ UNCHANGED <<now, sInput, sStart, sFinish, sRate, sPc, sItem, sSeen,
                 sFirst, sWall, sWake, sDelay, sReal, fPc, fItem, fOut,
                 fOutClosed, fSent, sOutClosed, sEmitted>>
  /\ UNCHANGED <<varsFn, varsC, varsP, cancelled, sRet>>

\* ctx := context.Background() is the only context of the run; a caller of
\* the package may hand Consume one that it cancels.  Stream and Filter take
\* no context, time.Sleep and `out <- item` do not select on one: cancelling
\* changes nothing that a step of the streamer reads
Cancel ==
  /\ ~cancelled
  /\ cancelled' = TRUE
  /\ UNCHANGED <<now, sInput, sInClosed, sStart, sFinish, sRate, sPc, sItem,
                 sSeen, sFirst, sWall, sWake, sDelay, sReal, fPc, fItem,
                 fOut, fOutClosed, fSent, sOutClosed, sEmitted, sRet>>
  /\ UNCHANGED <<varsFn, varsC, varsP>>

\* (variant: no rate is refused)
RateRejectedNever(rate) == FALSE
\* if rate < 0 { return nil, fmt.Errorf("cannot support negative rates: %v", rate) }
RateRejected(rate) == rate < 0

\* NewStreamer(start, finish, logger).Stream(items, rate):
\* if rate < 0 { return nil, fmt.Errorf(...) }; out := make(chan Item);
\* go func() { ... }(); return out, nil
StreamCall ==
  /\ sPc = "new"
  /\ \E start \in StartOptions, finish \in FinishOptions, rate \in Rates :
       /\ sStart' = start
       /\ sFinish' = finish
       /\ sRate' = rate
       /\ sPc' = IF RateRejected(rate) THEN "failed" ELSE "filter"
       /\ sRet' = IF RateRejected(rate)
                    THEN [out |-> "nil",
                          err |-> "cannot support negative rates"]
                    ELSE [out |-> "out", err |-> "nil"]
  /\ UNCHANGED <<now, sInput, sInClosed, sItem, sSeen, sFirst, sWall, sWake,
                 sDelay, sReal, fPc, fItem, fOut, fOutClosed, fSent,
                 sOutClosed, sEmitted>>
  /\ UNCHANGED <<varsFn, varsC, varsP, cancelled>>

\* if item.GetTimestamp().After(*s.start) { break }
StartLoopBreaks(item, start) == After(item.ts, start)

\* Filter, with s.start set: one turn of `for item := range items`, which
\* goes on after a nil item and after an item that is not after start, and
\* ends, keeping nothing of the item, at the first item after start
FilterStartRecv ==
  /\ sPc = "filter"
  /\ sStart # NilTime
  /\ ~sInClosed
  /\ Len(sInput) < MaxIn
  /\ \E item \in NextItems :
       /\ sInput' = Append(sInput, item)
       /\ sPc' = IF ~item.nil /\ StartLoopBreaks(item, Deref(sStart))
                   THEN "make" ELSE "filter"
  /\ UNCHANGED <<now, sInClosed, sStart, sFinish, sRate, sItem, sSeen,
                 sFirst, sWall, sWake, sDelay, sReal, fPc, fItem, fOut,
                 fOutClosed, fSent, sOutClosed, sEmitted>>
  /\ UNCHANGED <<varsFn, varsC, varsP, cancelled, sRet>>

\* Filter, with s.start set: items is closed and the range loop ends
FilterStartClosed ==
  /\ sPc = "filter"
  /\ sStart # NilTime
  /\ sInClosed
  /\ sPc' = "make"
  /\ UNCHANGED <<now, sInput, sInClosed, sStart, sFinish, sRate, sItem,
                 sSeen, sFirst, sWall, sWake, sDelay, sReal, fPc, fItem,
                 fOut, fOutClosed, fSent, sOutClosed, sEmitted>>
  /\ UNCHANGED <<varsFn, varsC, varsP, cancelled, sRet>>

\* out := make(chan Item, StreamFilterBufferSize); go func() {...}();
\* return out: Stream's goroutine starts to range over out
FilterMake ==
  /\ \/ sPc = "make"
     \/ sPc = "filter" /\ sStart = NilTime
  /\ fPc' = "recv"
  /\ sPc' = "range"
  /\ UNCHANGED <<now, sInput, sInClosed, sStart, sFinish, sRate, sItem,
                 sSeen, sFirst, sWall, sWake, sDelay, sReal, fItem, fOut,
                 fOutClosed, fSent, sOutClosed, sEmitted>>
  /\ UNCHANGED <<varsFn, varsC, varsP, cancelled, sRet>>

\* if s.finish != nil { if item.GetTimestamp().After(*s.finish) { break } }
FinishLoopBreaks(item, finish) ==
  finish # NilTime /\ After(item.ts, Deref(finish))

\* Filter's goroutine: one turn of `for item := range items` up to the send
FilterRecv ==
  /\ fPc = "recv"
  /\ ~sInClosed
  /\ Len(sInput) < MaxIn
  /\ \E item \in NextItems :
       /\ sInput' = Append(sInput, item)
       /\ IF item.nil
            THEN fPc' = "recv" /\ fItem' = NoStreamItem
            ELSE IF FinishLoopBreaks(item, sFinish)
                   THEN fPc' = "close" /\ fItem' = NoStreamItem
                   ELSE fPc' = "send" /\ fItem' = item
  /\ UNCHANGED <<now, sInClosed, sStart, sFinish, sRate, sPc, sItem, sSeen,
                 sFirst, sWall, sWake, sDelay, sReal, fOut, fOutClosed,
                 fSent, sOutClosed, sEmitted>>
  /\ UNCHANGED <<varsFn, varsC, varsP, cancelled, sRet>>

\* Filter's goroutine: items is closed and the range loop ends
FilterInputClosed ==
  /\ fPc = "recv"
  /\ sInClosed
  /\ fPc' = "close"
  /\ UNCHANGED <<now, sInput, sInClosed, sStart, sFinish, sRate, sPc, sItem,
                 sSeen, sFirst, sWall, sWake, sDelay, sReal, fItem, fOut,
                 fOutClosed, fSent, sOutClosed, sEmitted>>
  /\ UNCHANGED <<varsFn, varsC, varsP, cancelled, sRet>>

\* out <- item, on the buffered channel of Filter
FilterSend ==
  /\ fPc = "send"
  /\ Len(fOut) < StreamFilterBufferSize
  /\ fOut' = Append(fOut, fItem)
  /\ fSent' = Append(fSent, fItem)
  /\ fItem' = NoStreamItem
  /\ fPc' = "recv"
  /\ UNCHANGED <<now, sInput, sInClosed, sStart, sFinish, sRate, sPc, sItem,
                 sSeen, sFirst, sWall, sWake, sDelay, sReal, fOutClosed,
                 sOutClosed, sEmitted>>
  /\ UNCHANGED <<varsFn, varsC, varsP, cancelled, sRet>>

\* close(out) in Filter's goroutine
FilterClose ==
  /\ fPc = "close"
  /\ fOutClosed' = TRUE
  /\ fPc' = "done"
  /\ UNCHANGED <<now, sInput, sInClosed, sStart, sFinish, sRate, sPc, sItem,
                 sSeen, sFirst, sWall, sWake, sDelay, sReal, fItem, fOut,
                 fSent, sOutClosed, sEmitted>>
  /\ UNCHANGED <<varsFn, varsC, varsP, cancelled, sRet>>

\* (variant: an item that is behind schedule is not taken)
TakesBehindNever(item, seen, first, wall) ==
  ~seen \/ Sub(item.ts, first) >= now - wall
\* Stream takes every item of `for item := range s.Filter(items)`
Takes(item, seen, first, wall) == TRUE

\* Stream's goroutine: the next item of the range over Filter's channel;
\* if !seenItem { first = item.GetTimestamp(); start = time.Now();
\* seenItem = true }
StreamRecv ==
  /\ sPc = "range"
  /\ fOut # <<>>
  /\ fOut' = Tail(fOut)
  /\ IF Takes(Head(fOut), sSeen, sFirst, sWall)
       THEN /\ sItem' = Head(fOut)
            /\ sPc' = "pace"
            /\ sSeen' = TRUE
            /\ sFirst' = IF sSeen THEN sFirst ELSE Head(fOut).ts
            /\ sWall' = IF sSeen THEN sWall ELSE now
       ELSE UNCHANGED <<sItem, sPc, sSeen, sFirst, sWall>>
  /\ UNCHANGED <<now, sInput, sInClosed, sStart, sFinish, sRate, sWake,
                 sDelay, sReal, fPc, fItem, fOutClosed, fSent, sOutClosed,
                 sEmitted>>
  /\ UNCHANGED <<varsFn, varsC, varsP, cancelled, sRet>>

\* time.Duration(rate): the conversion of a float64 to an integer drops
\* the fraction
DurationOfRate(rate) == rate \div RateDen
\* time.Since(start)
Since(wall) == now - wall
\* elapsedSinceStart := time.Duration(rate) * time.Since(start)
ElapsedSinceStart(rate, wall) == DurationOfRate(rate) * Since(wall)
\* elapsedSinceFirst := item.GetTimestamp().Sub(first)
ElapsedSinceFirst(item, first) == Sub(item.ts, first)
\* (variant: the difference is multiplied by the rate)
SleepTimesRate(diff, rate) == (diff * rate) \div RateDen
\* time.Duration(float64(diff) / rate), for rate > 0
SleepDuration(diff, rate) == (diff * RateDen) \div rate

\* if diff := elapsedSinceFirst - elapsedSinceStart; diff > 0 {
\* time.Sleep(time.Duration(float64(diff) / rate)) }.  With rate 0 the
\* quotient is +Inf, whose conversion to an integer depends on the
\* platform: the smallest int64 (Sleep returns at once) or the largest
\* (Sleep does not return within any replay).
StreamPace ==
  /\ sPc = "pace"
  /\ LET diff == ElapsedSinceFirst(sItem, sFirst)
                   - ElapsedSinceStart(sRate, sWall)
     IN  IF diff <= 0
           THEN sPc' = "send" /\ sDelay' = 0 /\ sWake' = now
           ELSE IF sRate = 0
                  THEN \/ sPc' = "send" /\ sDelay' = 0 /\ sWake' = now
                       \/ sPc' = "asleep" /\ sDelay' = 0 /\ sWake' = now
                  ELSE /\ sPc' = "sleep"
                       /\ sDelay' = SleepDuration(diff, sRate)
                       /\ sWake' = now + SleepDuration(diff, sRate)
  /\ sReal' = Since(sWall)
  /\ UNCHANGED <<now, sInput, sInClosed, sStart, sFinish, sRate, sItem,
                 sSeen, sFirst, sWall, fPc, fItem, fOut, fOutClosed, fSent,
                 sOutClosed, sEmitted>>
  /\ UNCHANGED <<varsFn, varsC, varsP, cancelled, sRet>>

\* time.Sleep returns: not before the duration has passed
StreamWake ==
  /\ sPc = "sleep"
  /\ now' = IF now < sWake THEN sWake ELSE now
  /\ sPc' = "send"
  /\ UNCHANGED <<sInput, sInClosed, sStart, sFinish, sRate, sItem, sSeen,
                 sFirst, sWall, sWake, sDelay, sReal, fPc, fItem, fOut,
                 fOutClosed, fSent, sOutClosed, sEmitted>>
  /\ UNCHANGED <<varsFn, varsC, varsP, cancelled, sRet>>

\* out <- item on Stream's unbuffered channel: the send ends when the
\* consumer receives the item
StreamSend ==
  /\ sPc = "send"
  /\ sEmitted' = Append(sEmitted, [item |-> sItem, at |-> now])
  /\ sItem' = NoStreamItem
  /\ sPc' = "range"
  /\ UNCHANGED <<now, sInput, sInClosed, sStart, sFinish, sRate, sSeen,
                 sFirst, sWall, sWake, sDelay, sReal, fPc, fItem, fOut,
                 fOutClosed, fSent, sOutClosed>>
  /\ UNCHANGED <<varsFn, varsC, varsP, cancelled, sRet>>

\* the range over Filter's channel ends; close(out)
StreamClose ==
  /\ sPc = "range"
  /\ fOut = <<>>
  /\ fOutClosed
  /\ sOutClosed' = TRUE
  /\ sPc' = "done"
  /\ UNCHANGED <<now, sInput, sInClosed, sStart, sFinish, sRate, sItem,
                 sSeen, sFirst, sWall, sWake, sDelay, sReal, fPc, fItem,
                 fOut, fOutClosed, fSent, sEmitted>>
  /\ UNCHANGED <<varsFn, varsC, varsP, cancelled, sRet>>

NextStream ==
  \/ Tick
  \/ Cancel
  \/ UpstreamClose
  \/ StreamCall
  \/ FilterStartRecv
  \/ FilterStartClosed
  \/ FilterMake
  \/ FilterRecv
  \/ FilterInputClosed
  \/ FilterSend
  \/ FilterClose
  \/ StreamRecv
  \/ StreamPace
  \/ StreamWake
  \/ StreamSend
  \/ StreamClose

\* the decimal digits of n in a field of w digits
RECURSIVE Itoa(_, _)
Itoa(n, w) ==
  IF w = 0 THEN ""
  ELSE Itoa(n \div 10, w - 1) \o SubSeq("0123456789", (n % 10) + 1, (n % 10) + 1)

RECURSIVE TrimLeftZeros(_)
TrimLeftZeros(digits) ==
  IF Len(digits) > 1 /\ At(digits, 1) = "0" THEN TrimLeftZeros(Drop(digits, 1))
  ELSE digits

(***************************************************************************)
(* ParseBindParameters on the parameter lists PostgreSQL writes after      *)
(* "DETAIL:  parameters: ", with the whole input in the scan buffer.       *)
(***************************************************************************)
\* a value as the log shows it: NULL, or the text in single quotes with
\* each single quote doubled
RenderParameter(param) ==
  IF param.null THEN "NULL" ELSE "'" \o ReplaceAll(param.v, "'", "''") \o "'"

\* the number written after $ for the k-th parameter
Labels == {"position", "shifted", "constant"}
LabelShift == 9
LabelOf(labels, k) ==
  CASE labels = "position" -> k
    [] labels = "shifted" -> k + LabelShift
    [] labels = "constant" -> 1

\* $1 = v1, $2 = v2, ... from the k-th parameter on
RECURSIVE RenderFrom(_, _, _)
RenderFrom(parameters, labels, k) ==
  IF k > Len(parameters) THEN ""
  ELSE (IF k = 1 THEN "" ELSE ", ")
         \o "$" \o TrimLeftZeros(Itoa(LabelOf(labels, k), 2)) \o " = "
         \o RenderParameter(parameters[k])
         \o RenderFrom(parameters, labels, k + 1)

MaxParameters == 3
ParameterValues ==
  {NullParam, StringParam(""), StringParam("'"), StringParam("NULL"),
   StringParam("it's, $2 = 'x'"), StringParam("a b")}
ParameterLists ==
  UNION {[1..n -> ParameterValues] : n \in 0..MaxParameters}

InitB ==
  /\ bPc = "new"
  /\ bParameters = <<>>
  /\ bInput = ""
  /\ bRet = [parameters |-> <<>>, err |-> ""]

\* the server logs the parameters of an execute
RenderParameters ==
  /\ bPc = "new"
  /\ \E ps \in ParameterLists, labels \in Labels :
       /\ bParameters' = ps
       /\ bInput' = RenderFrom(ps, labels, 1)
  /\ bPc' = "rendered"
  /\ UNCHANGED bRet
  /\ UNCHANGED <<varsC, varsP, varsS, varsJ, varsL, varsR>>

\* parameters, err := ParseBindParameters(input, buffer)
CallParseBindParameters ==
  /\ bPc = "rendered"
  /\ bRet' = ParseBindParameters(bInput)
  /\ bPc' = "parsed"
  /\ UNCHANGED <<bParameters, bInput>>
  /\ UNCHANGED <<varsC, varsP, varsS, varsJ, varsL, varsR>>

NextBind == RenderParameters \/ CallParseBindParameters

(***************************************************************************)
(* bufio.Scanner as NewLogScanner and ParseBindParameters set it up: the   *)
(* loop of Scan, one action per pass of its parts, over a reader that      *)
(* hands out the input in chunks.  The sizes of the source are scaled:     *)
(* MaxLogLineSize is 10 MiB and InitialScannerBufferSize 100 bytes there.  *)
(***************************************************************************)
MaxLogLineSize == 32
InitialScannerBufferSize == 16

\* bytes.Index(s, sep), counted from 0, and bytes.TrimSpace
Index(s, sep) == IF Contains(s, sep) THEN Min(Occurrences(s, sep)) - 1 ELSE -1
Space == {" ", "\t", "\n"}
RECURSIVE TrimLeft(_)
TrimLeft(s) == IF s # "" /\ At(s, 1) \in Space THEN TrimLeft(Drop(s, 1)) ELSE s
RECURSIVE TrimRight(_)
TrimRight(s) ==
  IF s # "" /\ At(s, Len(s)) \in Space THEN TrimRight(Take(s, Len(s) - 1)) ELSE s
TrimSpace(s) == TrimRight(TrimLeft(s))

\* what a split function returns: token is meaningful when isNil is FALSE
SplitResult(advance, token, isNil, err) ==
  [advance |-> advance, token |-> token, isNil |-> isNil, err |-> err]
NeedMore == SplitResult(0, "", TRUE, "")

\* the for loop of logLineSplitFunc entered with this value of advance: the
\* value it leaves with, or -1 when it returns asking for more data
RECURSIVE logLineAdvance(_, _, _)
logLineStep(data, atEOF, advance, offset) ==
  IF atEOF /\ offset = -1 THEN Len(data)
  ELSE IF offset = -1 THEN -1
  ELSE IF /\ At(data, advance + offset + 2) # "\t"
          /\ TrimSpace(Take(data, advance + offset + 1)) # ""
    THEN advance + offset + 1
    ELSE logLineAdvance(data, atEOF, advance + offset + 1)
logLineAdvance(data, atEOF, advance) ==
  logLineStep(data, atEOF, advance,
              Index(SubSeq(data, advance + 1, Len(data) - 1), "\n"))

\* the token cut from data[0:advance], with every newline and tab kept
logLineTokenRaw(data, advance) == TrimSpace(Take(data, advance))
\* the token cut from data[0:advance]: bytes.TrimSpace gives nil for what
\* is all white space
logLineToken(data, advance) ==
  TrimSpace(ReplaceAll(Take(data, advance), "\n\t", "\n"))

\* func logLineSplitFunc(data []byte, atEOF bool) (advance int, token []byte, err error)
logLineSplitFunc(data, atEOF) ==
  IF atEOF /\ data = "" THEN NeedMore
  ELSE IF logLineAdvance(data, atEOF, 0) = -1 THEN NeedMore
  ELSE SplitResult(logLineAdvance(data, atEOF, 0),
                   logLineToken(data, logLineAdvance(data, atEOF, 0)),
                   logLineToken(data, logLineAdvance(data, atEOF, 0)) = "", "")

\* bindParametersSplitFunc(data, atEOF) as the scanner calls it
bindSplit(data, atEOF) ==
  IF atEOF /\ data = "" THEN NeedMore
  ELSE SplitResult(bindParametersSplitFunc(data).advance,
                   bindParametersSplitFunc(data).token, FALSE,
                   bindParametersSplitFunc(data).err)

split(which, data, atEOF) ==
  IF which = "log" THEN logLineSplitFunc(data, atEOF) ELSE bindSplit(data, atEOF)

\* the inputs of the log scanner: runs of text, newlines, continuation
\* marks, spaces and tabs, and one record longer than MaxLogLineSize
LogPieces == {"a", "\n", "\n\t", " ", "\t"}
MaxPieces == 5
RECURSIVE Concat(_)
Concat(pieces) == IF pieces = <<>> THEN "" ELSE Head(pieces) \o Concat(Tail(pieces))
LongRecord == "aaaaaaaaaaaaaaaaaaaaaaaaaaaaaaaaa\na"
LogInputs ==
  {Concat(pieces) : pieces \in UNION {[1..n -> LogPieces] : n \in 0..MaxPieces}}
    \cup {LongRecord}
\* len(buffer) for the buffers handed to NewLogScanner
LogBuffers == {1, 3}

\* the inputs of ParseBindParameters: up to two parameters
BindInputs ==
  {RenderFrom(ps, "position", 1) :
     ps \in UNION {[1..n -> ParameterValues] : n \in 0..2}}

InitL ==
  /\ scPc = "new"
  /\ scSplit = ""
  /\ scInput = ""
  /\ scRest = ""
  /\ scBuf = ""
  /\ scStart = 0
  /\ scLen = 0
  /\ scErr = ""
  /\ scTokens = <<>>

\* scanner := NewLogScanner(input, buffer), and the first call of Scan
NewLogScanner ==
  /\ scPc = "new"
  /\ \E input \in LogInputs, size \in LogBuffers :
       /\ scInput' = input
       /\ scRest' = input
       /\ scLen' = size
  /\ scSplit' = "log"
  /\ scPc' = "scan"
  /\ UNCHANGED <<scBuf, scStart, scErr, scTokens>>
  /\ UNCHANGED <<varsC, varsP, varsS, varsJ, varsB, varsR>>

\* ParseBindParameters(input, buffer) builds its scanner: a nil buffer is
\* replaced by one of InitialScannerBufferSize bytes; the other buffer
\* holds more than the input
NewBindScanner ==
  /\ scPc = "new"
  /\ \E input \in BindInputs :
       /\ scInput' = input
       /\ scRest' = input
       /\ scLen' \in {InitialScannerBufferSize,
                      Max({Len(input) + 1, InitialScannerBufferSize + 1})}
  /\ scSplit' = "bind"
  /\ scPc' = "scan"
  /\ UNCHANGED <<scBuf, scStart, scErr, scTokens>>
  /\ UNCHANGED <<varsC, varsP, varsS, varsJ, varsB, varsR>>

\* Scan: there is data, or the reader has failed or ended; the split
\* function is called.  An error ends the scan; a token is handed to the
\* caller, which calls Scan again; otherwise Scan goes on to read.
ScannerSplit ==
  /\ scPc = "scan"
  /\ scBuf # "" \/ scErr # ""
  /\ \E r \in {split(scSplit, scBuf, scErr # "")} :
       IF r.err = "panic"
         THEN /\ scPc' = "panicked"
              /\ UNCHANGED <<scBuf, scStart, scErr, scTokens>>
       ELSE IF r.err # ""
         THEN /\ scErr' = r.err
              /\ scPc' = "done"
              /\ UNCHANGED <<scBuf, scStart, scTokens>>
         ELSE /\ scBuf' = Drop(scBuf, r.advance)
              /\ scStart' = scStart + r.advance
              /\ scTokens' = IF r.isNil THEN scTokens ELSE Append(scTokens, r.token)
              /\ scPc' = IF r.isNil THEN "read" ELSE "scan"
              /\ UNCHANGED scErr
  /\ UNCHANGED <<scSplit, scInput, scRest, scLen>>
  /\ UNCHANGED <<varsC, varsP, varsS, varsJ, varsB, varsR>>

\* Scan must read more data
MustRead == scPc = "read" \/ (scPc = "scan" /\ scBuf = "" /\ scErr = "")

\* s.start and len(s.buf) after the data was shifted to the beginning and
\* a full buffer was doubled
ShiftedStart ==
  IF scStart > 0 /\ (scStart + Len(scBuf) = scLen \/ scStart > scLen \div 2)
    THEN 0 ELSE scStart
BufferFull == ShiftedStart + Len(scBuf) = scLen
GrownLen == IF BufferFull THEN Min({scLen * 2, MaxLogLineSize}) ELSE scLen
GrownStart == IF BufferFull THEN 0 ELSE ShiftedStart

\* the reader has failed or ended before: Scan returns false
ScannerStop ==
  /\ MustRead
  /\ scErr # ""
  /\ scBuf' = ""
  /\ scStart' = 0
  /\ scPc' = "done"
  /\ UNCHANGED <<scSplit, scInput, scRest, scLen, scErr, scTokens>>
  /\ UNCHANGED <<varsC, varsP, varsS, varsJ, varsB, varsR>>

\* the buffer is full and cannot grow: ErrTooLong
ScannerTooLong ==
  /\ MustRead
  /\ scErr = ""
  /\ BufferFull
  /\ scLen >= MaxLogLineSize
  /\ scErr' = "bufio.Scanner: token too long"
  /\ scStart' = ShiftedStart
  /\ scPc' = "done"
  /\ UNCHANGED <<scSplit, scInput, scRest, scBuf, scLen, scTokens>>
  /\ UNCHANGED <<varsC, varsP, varsS, varsJ, varsB, varsR>>

\* the free room of the buffer after the shift and the growth
Room == GrownLen - GrownStart - Len(scBuf)
\* how many bytes a Read may return: a strings.Reader fills the room, a
\* file may return less
Reads(most) == IF scSplit = "bind" THEN {most} ELSE 1..most

\* the reader returns some bytes
ScannerRead ==
  /\ MustRead
  /\ scErr = ""
  /\ ~(BufferFull /\ scLen >= MaxLogLineSize)
  /\ scRest # ""
  /\ \E n \in Reads(Min({Room, Len(scRest)})) :
       /\ scBuf' = scBuf \o Take(scRest, n)
       /\ scRest' = Drop(scRest, n)
  /\ scStart' = GrownStart
  /\ scLen' = GrownLen
  /\ scPc' = "scan"
  /\ UNCHANGED <<scSplit, scInput, scErr, scTokens>>
  /\ UNCHANGED <<varsC, varsP, varsS, varsJ, varsB, varsR>>

\* the reader returns io.EOF
ScannerReadEOF ==
  /\ MustRead
  /\ scErr = ""
  /\ ~(BufferFull /\ scLen >= MaxLogLineSize)
  /\ scRest = ""
  /\ scErr' = "EOF"
  /\ scStart' = GrownStart
  /\ scLen' = GrownLen
  /\ scPc' = "scan"
  /\ UNCHANGED <<scSplit, scInput, scRest, scBuf, scTokens>>
  /\ UNCHANGED <<varsC, varsP, varsS, varsJ, varsB, varsR>>

NextScan ==
  \/ NewLogScanner
  \/ NewBindScanner
  \/ ScannerSplit
  \/ ScannerStop
  \/ ScannerTooLong
  \/ ScannerRead
  \/ ScannerReadEOF

\* scanner.Err(): io.EOF is no error
ScannerErr == IF scErr = "EOF" THEN "" ELSE scErr

(***************************************************************************)
(* The run command: parseLog starts the parser, whose done channel only a  *)
(* logging goroutine reads; the items go through Stream to                 *)
(* Database.Consume; the command then loops on the two channels of         *)
(* Consume until it exits.                                                 *)
(***************************************************************************)
\* the process has not called os.Exit
NotExited == {}
\* what the parser sends on done: nil, or the error that ended the scan
InputErrs ==
  {"", "bufio.Scanner: token too long", "read postgresql.log: input/output error"}

InitR ==
  /\ rParsePc = "parsing"
  /\ rParseErr = ""
  /\ rStatus = 0
  /\ rExit = NotExited

\* the parser leaves its loop: close(items), close(errs), done <- scanner.Err()
\* (received by logger.Log("event", "parse.finished", "error", <-done))
ParseFinished ==
  /\ rParsePc = "parsing"
  /\ rParseErr' \in InputErrs
  /\ rParsePc' = "finished"
  /\ UNCHANGED <<rStatus, rExit>>
  /\ UNCHANGED <<varsC, varsP, varsS, varsJ, varsB, varsL>>

\* the items channel is closed and drained: Stream closes the channel that
\* Consume ranges over
StreamCloses ==
  /\ rParsePc # "parsing"
  /\ rExit = NotExited
  /\ CloseInput

\* the value of err := <-done: Consume sends nothing on done, the receive
\* returns nil once done is closed
DoneValue == ""

\* case err := <-done: status becomes 255 for an error; os.Exit(status)
MainRecvDone ==
  /\ doneClosed
  /\ rExit = NotExited
  /\ rStatus' = IF DoneValue # "" THEN 255 ELSE rStatus
  /\ rExit' = {rStatus'}
  /\ UNCHANGED <<rParsePc, rParseErr>>
  /\ UNCHANGED <<varsC, varsP, varsS, varsJ, varsB, varsL>>

NextRun ==
  \/ ParseFinished
  \/ StreamCloses
  \/ rExit = NotExited /\ ConsumeSteps
  \/ rExit = NotExited /\ CallerRecvErr
  \/ MainRecvDone

(***************************************************************************)
(* Consume under a caller that waits for done to be closed before it       *)
(* receives from errs, as the integration test does.                       *)
(***************************************************************************)
\* Eventually(errs).Should(BeClosed()), after Eventually(consumeDone)
LateRecvErr == doneClosed /\ CallerRecvErr

NextLate ==
  \/ CloseInput
  \/ ConsumeSteps
  \/ LateRecvErr

FairnessLate ==
  /\ WF_vars(ConsumeInputClosed)
  /\ WF_vars(ConsumeSendErr)
  /\ WF_vars(ConsumeHandOff)
  /\ \A s \in Sessions : WF_vars(ConsumeCloseConn(s))
  /\ WF_vars(ConsumeWait)
  /\ WF_vars(ConsumeCloseErrs)
  /\ WF_vars(ConsumeCloseDone)
  /\ \A c \in ConnIds : WF_vars(StartRecv(c))
  /\ \A c \in ConnIds : WF_vars(StartHandle(c))
  /\ \A c \in ConnIds : WF_vars(StartDrained(c))
  /\ \A c \in ConnIds : WF_vars(StartDeferClose(c))
  /\ \A c \in ConnIds : WF_vars(WorkerSendErr(c))
  /\ \A c \in ConnIds : WF_vars(WorkerDone(c))
  /\ WF_vars(LateRecvErr)

(***************************************************************************)
(* ItemMarshalJSON, and a caller that encodes an item and decodes the      *)
(* bytes again (expectIsReversible of the tests).                          *)
(***************************************************************************)
RECURSIVE TrimRightZeros(_)
TrimRightZeros(digits) ==
  IF digits # "" /\ At(digits, Len(digits)) = "0"
    THEN TrimRightZeros(Take(digits, Len(digits) - 1))
    ELSE digits

\* time.Time.MarshalJSON: the instant in the layout RFC3339Nano, which
\* writes the fraction of the second without its trailing zeros and no
\* offset as Z
TimeMarshalJSON(t) ==
  LET month == (t.day - 1) \div 31
      secs == t.ms \div 1000
  IN  "\"" \o Itoa((month - 1) \div 12, 4) \o "-" \o Itoa(((month - 1) % 12) + 1, 2)
        \o "-" \o Itoa(((t.day - 1) % 31) + 1, 2)
        \o "T" \o Itoa(secs \div 3600, 2) \o ":" \o Itoa((secs \div 60) % 60, 2)
        \o ":" \o Itoa(secs % 60, 2)
        \o (IF t.ms % 1000 = 0 THEN ""
            ELSE "." \o TrimRightZeros(Itoa(t.ms % 1000, 3)))
        \o "Z\""

\* a character written as it is
JsonEscapeNone(ch) == ch
\* a character inside a JSON string (the encoder escapes HTML)
JsonEscape(ch) ==
  CASE ch = "\"" -> "\\\"" [] ch = "\\" -> "\\\\"
    [] ch = "\n" -> "\\n" [] ch = "\t" -> "\\t"
    [] ch = "<" -> "\\u003c" [] ch = ">" -> "\\u003e" [] ch = "&" -> "\\u0026"
    [] OTHER -> ch

RECURSIVE JsonEscapeAll(_)
JsonEscapeAll(text) ==
  IF text = "" THEN ""
  ELSE JsonEscape(At(text, 1)) \o JsonEscapeAll(Drop(text, 1))

JsonQuote(text) == "\"" \o JsonEscapeAll(text) \o "\""

\* []interface{} holding nil and strings
RECURSIVE MarshalParameters(_)
MarshalParameters(parameters) ==
  IF parameters = <<>> THEN ""
  ELSE (IF Head(parameters).null THEN "null" ELSE JsonQuote(Head(parameters).v))
         \o (IF Len(parameters) = 1 THEN "" ELSE ",")
         \o MarshalParameters(Tail(parameters))

\* the members of Details, in the order of the struct
MarshalDetails(d) ==
  "\"timestamp\":" \o TimeMarshalJSON(d.Timestamp)
    \o ",\"session_id\":" \o JsonQuote(d.SessionID)
    \o ",\"user\":" \o JsonQuote(d.User)
    \o ",\"database\":" \o JsonQuote(d.Database)

\* json.Marshal(envelope{Type: label, Item: item})
MarshalEnvelope(label, members) ==
  "{\"type\":\"" \o label \o "\",\"item\":{" \o members \o "}}"

\* func ItemMarshalJSON(item Item) ([]byte, error)
\* (nil, nil for what is none of the four types: the empty payload)
ItemMarshalJSON(item) ==
  CASE item.type \in {"Connect", "Disconnect"} ->
         MarshalEnvelope(item.type, MarshalDetails(item.Details))
    [] item.type = "Statement" ->
         MarshalEnvelope(item.type,
           MarshalDetails(item.Details) \o ",\"query\":" \o JsonQuote(item.Query))
    [] item.type = "BoundExecute" ->
         MarshalEnvelope(item.type,
           MarshalDetails(item.Details) \o ",\"query\":" \o JsonQuote(item.Query)
             \o ",\"parameters\":[" \o MarshalParameters(item.Parameters) \o "]")
    [] OTHER -> ""

\* the items the caller encodes: timestamps with and without a fraction,
\* texts that hold what JSON escapes, nil and empty parameters
JsonTimes ==
  {TimeParse("2019-02-25 15:08:27.222 GMT"), TimeParse("2019-02-25 15:08:27.220 GMT"),
   TimeParse("1999-12-31 23:59:59.000 UTC"), ZeroTime}
JsonQueries ==
  {"select now()", "select 'a\"b', $1", "select 1 < 2 \\ 3 & 4 > 5",
   "select 1,\n\t2", ""}
JsonParameterLists ==
  {<<>>, <<NullParam>>, <<StringParam("")>>, <<StringParam("null")>>,
   <<StringParam("alice"), NullParam, StringParam("a\",\"b]\\")>>}
JsonAllDetails ==
  {Details(ts, sid, "alice", db, 0) :
     ts \in JsonTimes, sid \in {"5c7404eb.d6bd", ""}, db \in {"pgreplay_test", "a\\\"b"}}
\* the items the stderr parser yields for the lines of the model, with no
\* execute pending and with one
PendingExecute ==
  MapSet(EmptyMap, "5c7404eb.d6bd",
         Execute(Details(TimeParse("2019-02-25 15:08:27.222 GMT"), "5c7404eb.d6bd",
                         "alice", "pgreplay_test", 0), "select $1, $2"))
StderrItems ==
  {r.item : r \in {ParseItem(l, pending, 0) :
                     l \in LogLines, pending \in {EmptyMap, PendingExecute}}}
JsonItems ==
  {Connect(d) : d \in JsonAllDetails} \cup {Disconnect(d) : d \in JsonAllDetails}
    \cup {Statement(d, q) : d \in JsonAllDetails, q \in JsonQueries}
    \cup {Bind(Execute(d, q), ps) :
            d \in JsonAllDetails, q \in JsonQueries, ps \in JsonParameterLists}
    \cup {x \in StderrItems : x.type \in ItemTypes}

InitJ ==
  /\ jPc = "new"
  /\ jItem = NilItem
  /\ jPayload = ""
  /\ jBack = [item |-> NilItem, err |-> ""]

\* itemJSON, err := ItemMarshalJSON(item)
MarshalItem ==
  /\ jPc = "new"
  /\ \E x \in JsonItems :
       /\ jItem' = x
       /\ jPayload' = ItemMarshalJSON(x)
  /\ jPc' = "marshalled"
  /\ UNCHANGED jBack
  /\ UNCHANGED <<varsC, varsP, varsS, varsB, varsL, varsR>>

\* reversed, err := ItemUnmarshalJSON(itemJSON)
UnmarshalItem ==
  /\ jPc = "marshalled"
  /\ jBack' = ItemUnmarshalJSON(jPayload, jItem.Details.line)
  /\ jPc' = "unmarshalled"
  /\ UNCHANGED <<jItem, jPayload>>
  /\ UNCHANGED <<varsC, varsP, varsS, varsB, varsL, varsR>>

NextJson == MarshalItem \/ UnmarshalItem

InitFn == InitJ /\ InitB /\ InitL /\ InitR

Init == InitC /\ InitP /\ InitS /\ InitFn

Spec == Init /\ [][Next]_vars

SpecParse == Init /\ [][NextParse]_vars

SpecStream == Init /\ [][NextStream]_vars

SpecJson == Init /\ [][NextJson]_vars

SpecBind == Init /\ [][NextBind]_vars

SpecScan == Init /\ [][NextScan]_vars

SpecRun == Init /\ [][NextRun]_vars

FairSpecLate == Init /\ [][NextLate]_vars /\ FairnessLate

(***************************************************************************)
(* The fairness of the Go scheduler: a goroutine that can take a step      *)
(* takes it.  The arrival of items and the closing of the input are the    *)
(* producer's and carry no fairness; a query call returns (StartHandle)    *)
(* and the caller keeps receiving from errs (CallerRecvErr).               *)
(***************************************************************************)
Fairness ==
  /\ WF_vars(ConsumeInputClosed)
  /\ WF_vars(ConsumeSendErr)
  /\ WF_vars(ConsumeHandOff)
  /\ \A s \in Sessions : WF_vars(ConsumeCloseConn(s))
  /\ WF_vars(ConsumeWait)
  /\ WF_vars(ConsumeCloseErrs)
  /\ WF_vars(ConsumeCloseDone)
  /\ \A c \in ConnIds : WF_vars(StartRecv(c))
  /\ \A c \in ConnIds : WF_vars(StartHandle(c))
  /\ \A c \in ConnIds : WF_vars(StartDrained(c))
  /\ \A c \in ConnIds : WF_vars(StartDeferClose(c))
  /\ \A c \in ConnIds : WF_vars(WorkerSendErr(c))
  /\ \A c \in ConnIds : WF_vars(WorkerDone(c))
  /\ WF_vars(CallerRecvErr)

FairSpec == Init /\ [][Next]_vars /\ Fairness

(***************************************************************************)
(* Properties of Database.Consume.                                         *)
(***************************************************************************)
Allocated == 1..nConn
WorkerLeftLoop(c) == wPc[c] \in {"deferClose", "errsSend", "exit", "done"}
IsPrefix(s, t) == Len(s) <= Len(t) /\ SubSeq(t, 1, Len(s)) = s
Increasing(s) == \A i, j \in 1..Len(s) : i < j => s[i].idx < s[j].idx

\* The records of a stderr log, as PostgreSQL writes them with
\* log_line_prefix='%m|%u|%d|%c|'.
IsRecord(l) == Len(SplitN(l, "|", 5)) = 5 /\ TimeParseOk(SplitN(l, "|", 5)[1])
SessionOf(l) == SplitN(l, "|", 5)[4]
MessageOf(l) == SplitN(l, "|", 5)[5]
\* LOG:  execute <name>: <query>
IsExecuteRecord(l) ==
  /\ IsRecord(l)
  /\ HasPrefix(MessageOf(l), "LOG:  execute ")
  /\ Contains(Drop(MessageOf(l), Len("LOG:  execute ")), ": ")
\* LOG:  duration: N.N ms, or DETAIL:  parameters: <a well-formed list>
IsTerminatingRecord(l) ==
  /\ IsRecord(l)
  /\ \/ Match(LogDuration, MessageOf(l), ParsedFromErrLog)
     \/ /\ HasPrefix(MessageOf(l), "DETAIL:  parameters: ")
        /\ ParseBindParameters(Drop(MessageOf(l), Len("DETAIL:  parameters: "))).err = ""
\* the record that terminates the execute record i: the first terminating
\* record of its session after it, unless the session logs another execute
\* before (0 when the log read so far holds none)
NextOfSession(i) ==
  {j \in (i + 1)..Len(pLog) :
     /\ IsRecord(pLog[j])
     /\ SessionOf(pLog[j]) = SessionOf(pLog[i])
     /\ (IsExecuteRecord(pLog[j]) \/ IsTerminatingRecord(pLog[j]))}
TerminatorOf(i) ==
  IF NextOfSession(i) = {} \/ IsExecuteRecord(pLog[Min(NextOfSession(i) \cup {Len(pLog)})])
    THEN 0 ELSE Min(NextOfSession(i))
\* the parser has finished with record j: what it had to send for it is sent
Handled(j) == j < pRead \/ (j = pRead /\ pPc \notin {"sendErr", "sendItem"})
\* the items sent on the items channel that were built from record i
EmittedFor(i) == {k \in 1..Len(pEmitted) : pEmitted[k].Details.line = i}

\* C1: in stderr parsing no Execute is ever sent on the items channel, and
\* for every execute record read the items built from it are BoundExecutes,
\* at most one, and exactly one once the record that terminates it (a
\* duration or parameters record of its session) has been handled.
C1_ExecuteBoundOnce ==
  /\ \A k \in 1..Len(pEmitted) : pEmitted[k].type # "Execute"
  /\ \A i \in 1..Len(pLog) :
       IsExecuteRecord(pLog[i]) =>
         /\ \A k \in EmittedFor(i) : pEmitted[k].type = "BoundExecute"
         /\ Cardinality(EmittedFor(i)) <= 1
         /\ (TerminatorOf(i) # 0 /\ Handled(TerminatorOf(i)))
              => Cardinality(EmittedFor(i)) = 1

\* C2: no two workers (Conn objects with their goroutine) are ever created
\* for one session id, and the session table names the one that exists.
C2_OneWorkerPerSession ==
  /\ \A c1, c2 \in Allocated : heap[c1].sid = heap[c2].sid => c1 = c2
  /\ \A s \in Sessions : conns[s] # 0 => heap[conns[s]].sid = s
  /\ \A c \in Allocated : conns[heap[c].sid] = c

\* an item arrives for a session whose only worker has already terminated
C2_Witness ==
  /\ dPc = "handoff"
  /\ wPc[conns[dItem.sid]] = "done"

\* C3: what a worker has executed is, in order, the first items handed to
\* it, the items handed to it are its session's in the order the dispatcher
\* received them, and the item in flight is the next one.
C3_PerSessionOrder ==
  \A c \in Allocated :
    /\ IsPrefix(executed[c], handed[c])
    /\ Increasing(handed[c])
    /\ \A i \in 1..Len(handed[c]) : handed[c][i].sid = heap[c].sid
    /\ wPc[c] = "handle" =>
         /\ Len(executed[c]) < Len(handed[c])
         /\ Ref(wItem[c]) = handed[c][Len(executed[c]) + 1]

\* two items of one session executed while another session's worker ran
C3_Witness ==
  \E c1, c2 \in Allocated :
    /\ c1 # c2
    /\ Len(executed[c1]) >= 2
    /\ Len(executed[c2]) >= 1
    /\ executed[c1][1].idx < executed[c2][1].idx
    /\ executed[c2][1].idx < executed[c1][2].idx

\* C4 (as claimed): the dispatcher never fails, whatever it receives for a
\* session whose worker has exited.
C4_DispatcherNeverFails == dPc # "panicked"

\* C5 (as claimed): errs and done are closed only when every queue is
\* closed and every worker has terminated, done after errs, and once the
\* input is closed errs and done are eventually closed.
C5_Shutdown ==
  /\ [](errsClosed \/ doneClosed =>
          \A c \in Allocated : heap[c].inClosed /\ wPc[c] = "done")
  /\ [](doneClosed => errsClosed)
  /\ inputClosed ~> (errsClosed /\ doneClosed)

\* C6: the close of a queue runs at most once, and exactly once by the time
\* its worker has terminated or the dispatcher has visited it.
C6_QueueClosedOnce ==
  \A c \in Allocated :
    /\ heap[c].closeRuns <= 1
    /\ heap[c].inClosed <=> heap[c].closeRuns = 1
    /\ (wPc[c] = "done" \/ heap[c].sid \in dVisited) => heap[c].closeRuns = 1

\* both the dispatcher and the worker have called Close on one queue
C6_Witness ==
  \E c \in Allocated : heap[c].closeCalls = 2 /\ heap[c].closeRuns = 1

\* C7: a worker that has left its loop has closed its connection, so no
\* connection is open when done is closed.
C7_NoConnectionLeftOpen ==
  /\ \A c \in Allocated : WorkerLeftLoop(c) => heap[c].closed
  /\ doneClosed => \A c \in Allocated : heap[c].closed

\* done is closed and some session's queue was drained with no Disconnect
C7_Witness ==
  /\ doneClosed
  /\ \E c \in Allocated : heap[c].exit = "drained" /\ executed[c] # <<>>

\* C8: the hand-off of an item to a worker is enabled whenever the
\* dispatcher stands at it, however many items the worker has queued.
C8_HandOffNeverBlocks == (Running /\ dPc = "handoff") => ENABLED ConsumeHandOff

\* a worker with a query in flight and an item queued, and a later item
\* handed to another session's worker
C8_Witness ==
  \E c1, c2 \in Allocated :
    /\ c1 # c2
    /\ wPc[c1] = "handle"
    /\ Len(heap[c1].buf) >= 1
    /\ handed[c2] # <<>>
    /\ handed[c2][Len(handed[c2])].idx > handed[c1][Len(handed[c1])].idx

\* C9 (as claimed): by the time done is closed, the error of every query
\* the database rejected has been sent on errs.
C9_RejectedErrorsReported == doneClosed => rejected \subseteq reported

\* C10: a step in which a query is rejected with the connection left open
\* takes the worker back to the head of its loop, on the same connection,
\* and leaves the dispatcher and the session table as they were.
C10_RejectionStep ==
  \A c \in ConnIds :
    rejected' # rejected /\ wPc[c] = "handle" /\ wPc'[c] # "handle" =>
      /\ wPc'[c] = "recv"
      /\ ~heap'[c].closed
      /\ dPc' = dPc
      /\ conns' = conns

C10_WorkerSurvivesRejection == [][C10_RejectionStep]_vars

\* a worker executed a second item after its first was rejected
C10_Witness ==
  \E c \in Allocated :
    /\ Len(executed[c]) >= 2
    /\ Err("query", executed[c][1].idx) \in rejected

\* C11: when the initial connection open fails for a session, the error is
\* reported, no later item of that session is executed, and items of other
\* sessions are still dispatched.  The first part says that an error of a
\* failed open is on its way to errs or was sent there; the second that a
\* session whose open has failed never has an item executed; the third that
\* a failed open leaves the dispatcher receiving.
C11_FailedOpenDropsSession ==
  /\ \A i \in 1..nRecv :
       (dErr = Err("open", i)) \/ (Err("open", i) \in reported)
         \/ (\E c \in Allocated : \E k \in 1..Len(handed[c]) :
               handed[c][k].idx = i)
         \/ dItem.idx = i
  /\ \A c \in Allocated :
       heap[c].sid \in openFailed => executed[c] = <<>>

C13_DisconnectStep ==
  \A c \in ConnIds :
    /\ (wPc[c] = "handle" /\ wItem[c].type = "Disconnect"
          /\ executed'[c] # executed[c])
         => /\ heap'[c].closed
            /\ wPc'[c] = "deferClose"
            /\ heap'[c].exit = "disconnect"
    /\ WorkerLeftLoop(c)
         => /\ executed'[c] = executed[c]
            /\ WorkerLeftLoop(c)'

C13_DisconnectTerminates == [][C13_DisconnectStep]_vars

\* a worker has terminated after a Disconnect with an item of its session
\* still in its queue, handed over before the queue was closed
C13_Witness ==
  \E c \in Allocated :
    /\ heap[c].exit = "disconnect"
    /\ wPc[c] = "done"
    /\ heap[c].closed
    /\ heap[c].buf # <<>>
    /\ Len(executed[c]) < Len(handed[c])

(***************************************************************************)
(* Properties of the streamer.                                             *)
(***************************************************************************)
\* the items of a history, without the times
ItemsOf(h) == [k \in 1..Len(h) |-> h[k].item]
\* the places in the input of the items of a sequence
Places(s) == {s[k].pos : k \in 1..Len(s)}
\* the items come in the order of their timestamps, nil items aside
Chronological(s) ==
  \A i, j \in 1..Len(s) :
    (i < j /\ ~s[i].nil /\ ~s[j].nil) => s[i].ts <= s[j].ts
\* the place of the first item of s after finish, or Len(s) + 1
FirstPast(s, finish) ==
  Min({k \in 1..Len(s) : ~s[k].nil /\ s[k].ts > finish} \cup {Len(s) + 1})
\* the place of the first item of s that is neither nil nor at or before
\* start, or Len(s) + 1
FirstAfter(s, start) ==
  Min({k \in 1..Len(s) : ~s[k].nil /\ s[k].ts > start} \cup {Len(s) + 1})
\* the places of the items of s a window from start (leading items at or
\* before it discarded) to the first item after finish lets through
WindowPlaces(s, start, finish) ==
  LET from == IF start = NilTime THEN 1 ELSE FirstAfter(s, Deref(start))
      rest == [k \in 1..Len(s) |->
                 IF k < from THEN StreamNil(k) ELSE s[k]]
      to == IF finish = NilTime THEN Len(s) + 1
                                ELSE FirstPast(rest, Deref(finish))
  IN  {k \in 1..Len(s) : from <= k /\ k < to /\ ~s[k].nil}

\* C14: with start and finish set (start before finish), Filter emits an
\* item whose timestamp equals start and does not emit an item whose
\* timestamp equals finish.
C14_WindowBounds ==
  (sStart # NilTime /\ sFinish # NilTime /\ Deref(sStart) < Deref(sFinish))
    => /\ \A k \in 1..Len(fSent) : fSent[k].ts # Deref(sFinish)
       /\ fOutClosed =>
            \A k \in 1..Len(sInput) :
              (~sInput[k].nil /\ sInput[k].ts = Deref(sStart)
                 /\ k < FirstPast(sInput, Deref(sFinish)))
                => k \in Places(fSent)

\* C15: with start set, once Filter has closed its output, the items it
\* has sent are exactly the non-nil items from the first item after start
\* (that item included) up to the first item after finish: only the
\* leading items at or before start, and nil items, are discarded.
C15_StartDiscardsLeading ==
  (sStart # NilTime /\ fOutClosed)
    => Places(fSent) = WindowPlaces(sInput, sStart, sFinish)

\* C16: with finish set, the first non-nil item of the input after finish
\* and every item after it in the input are never emitted by Filter.
C16_StopsAtFinish ==
  sFinish # NilTime =>
    \A k \in Places(fSent) : k < FirstPast(sInput, Deref(sFinish))

\* C17: what Stream sends is what Filter let through, in the order of the
\* input: never a nil item, never an item twice or out of order, never an
\* item left out because the replay is late, and Stream closes its output
\* only when it has sent every item Filter sent and Filter has closed.
C17_StreamRelaysFilter ==
  /\ IsPrefix(ItemsOf(sEmitted), fSent)
  /\ \A k \in 1..Len(fSent) :
       /\ ~fSent[k].nil
       /\ fSent[k] = sInput[fSent[k].pos]
       /\ \A j \in 1..Len(fSent) : j < k => fSent[j].pos < fSent[k].pos
  /\ Len(fSent) - Len(sEmitted)
       = Len(fOut) + (IF sPc \in {"pace", "sleep", "asleep", "send"}
                        THEN 1 ELSE 0)
  /\ sOutClosed => (fOutClosed /\ ItemsOf(sEmitted) = fSent)

\* Stream has closed its output after a replay that fell behind: an item
\* was sent later than its time, a nil item was in the input, and every
\* item of the input that is not nil was sent
C17_Witness ==
  /\ sOutClosed
  /\ Len(sEmitted) >= 2
  /\ \E k \in 1..Len(sInput) : sInput[k].nil
  /\ Places(ItemsOf(sEmitted)) = {k \in 1..Len(sInput) : ~sInput[k].nil}
  /\ sRate = RateDen
  /\ \E k \in 1..Len(sEmitted) :
       sEmitted[k].at - sWall > sEmitted[k].item.ts - sFirst

\* C18: for a rate above 0, an item after the first is sent no earlier
\* than start_wall + (ts - first_ts) / rate, in whole ticks: neither an
\* item that was sent nor the item Stream is about to send is early.
C18_NeverEarly ==
  sRate > 0 =>
    /\ \A k \in 2..Len(sEmitted) :
         sEmitted[k].at - sWall
           >= ((sEmitted[k].item.ts - sFirst) * RateDen) \div sRate
    /\ sPc = "send" =>
         now - sWall >= ((sItem.ts - sFirst) * RateDen) \div sRate

\* with rate 2 the second item, one unit of time after the first in the
\* log, was sent half a unit after the first
C18_Witness ==
  /\ sRate = 2 * RateDen
  /\ Len(sEmitted) >= 2
  /\ sEmitted[2].item.ts - sEmitted[1].item.ts = TsUnit
  /\ sEmitted[1].at = sWall
  /\ 2 * (sEmitted[2].at - sEmitted[1].at) = TsUnit

\* C19: for a rate above 0 and items in chronological order, the time
\* between the sends of two consecutive items is at least the difference
\* of their timestamps divided by the rate, less a tolerance of one tick.
C19_ConsecutiveSpacing ==
  (sRate > 0 /\ Chronological(sInput)) =>
    \A k \in 1..(Len(sEmitted) - 1) :
      sEmitted[k + 1].at - sEmitted[k].at
        >= (((sEmitted[k + 1].item.ts - sEmitted[k].item.ts) * RateDen)
              \div sRate) - 1

\* C20: for a rate above 0, the duration Stream sleeps before it sends an
\* item is max(0, (sim_elapsed - real_elapsed) / rate), with sim_elapsed
\* = ts - first_ts and real_elapsed = (wall_now - start_wall) * rate.
C20_DelayFormula ==
  (sRate > 0 /\ sPc \in {"sleep", "send"}) =>
    sDelay = Max({0, (((sItem.ts - sFirst) * RateDen) - (sReal * sRate))
                       \div sRate})

\* C21: Stream called with a rate below 0 returns an error and no channel;
\* the pacing goroutine and Filter are never started, nothing is received
\* from the input and nothing is ever sent or closed.
C21_NegativeRateRejected ==
  (sPc # "new" /\ sRate < 0) =>
    /\ sPc = "failed"
    /\ sRet.out = "nil" /\ sRet.err # "nil"
    /\ fPc = "none"
    /\ sInput = <<>>
    /\ sEmitted = <<>> /\ fSent = <<>>
    /\ ~sOutClosed /\ ~fOutClosed

\* Stream has refused the rate -1 while the clock went on and the parser
\* closed the input
C21_Witness ==
  /\ sPc = "failed"
  /\ sRate = 0 - RateDen
  /\ sRet.err = "cannot support negative rates"
  /\ sInClosed
  /\ now > 0

\* C22: once the context of the run is cancelled, a sleep of Stream in
\* progress returns without waiting for its wake time and Stream sends no
\* further item.
C22_CancelStopsStream ==
  [][cancelled =>
       /\ sEmitted' = sEmitted
       /\ (sPc = "sleep" /\ sPc' # "sleep") => now' = now]_vars

\* A step in which ParseErrlog reads one more record, the record it reads,
\* and what "the record is discarded silently" says of such a step.
Scanned == parser = "errlog" /\ Len(pLog') = Len(pLog) + 1
ScannedLine == pLog'[Len(pLog')]
ScannedMsg(prefix) ==
  /\ Scanned
  /\ IsRecord(ScannedLine)
  /\ HasPrefix(MessageOf(ScannedLine), prefix)
NoItemNoError == pItem' = NilItem /\ pErr' = ""
\* the session of the record read had an Execute pending before the step
ScannedPending == SessionOf(ScannedLine) \in DOMAIN unbounds

\* C23: in stderr parsing the step that reads a record whose message begins
\* with "LOG:  duration: " yields, when an Execute is pending for the session,
\* that Execute bound to an empty parameter list and no error, and clears
\* the slot of the session; when none is pending it yields no item and no
\* error and leaves the pending Executes as they are.
C23_DurationRecord ==
  [][ScannedMsg("LOG:  duration: ") =>
       IF ScannedPending
         THEN /\ pItem' = Bind(unbounds[SessionOf(ScannedLine)], <<>>)
              /\ pErr' = ""
              /\ unbounds' = MapDelete(unbounds, SessionOf(ScannedLine))
         ELSE NoItemNoError /\ unbounds' = unbounds]_vars

\* C24: in stderr parsing the step that reads a record yields a Statement
\* exactly when the message of the record begins with "LOG:  statement: ",
\* and the query of the Statement is the message without that prefix.
C24_StatementByPrefix ==
  [][ScannedMsg("") =>
       /\ (pItem'.type = "Statement")
            <=> HasPrefix(MessageOf(ScannedLine), "LOG:  statement: ")
       /\ pItem'.type = "Statement" =>
            pItem'.Query = Drop(MessageOf(ScannedLine), Len("LOG:  statement: "))]_vars

\* the text after "LOG:  execute " of an execute record
ExecuteTail(l) == Drop(MessageOf(l), Len("LOG:  execute "))

\* C25: in stderr parsing the step that reads a record
\* "LOG:  execute <name>: Q" whose name is not <unnamed> yields no item and
\* no error and leaves, as the pending Execute of the session, an Execute
\* whose query is the text after the first ":" of "<name>: Q"; the other
\* sessions keep their pending Executes.
C25_NamedExecutePends ==
  [][(/\ ScannedMsg("LOG:  execute ")
      /\ ~HasPrefix(MessageOf(ScannedLine), "LOG:  execute <unnamed>: ")
      /\ Contains(ExecuteTail(ScannedLine), ": ")) =>
       /\ NoItemNoError
       /\ DOMAIN unbounds' = DOMAIN unbounds \cup {SessionOf(ScannedLine)}
       /\ unbounds'[SessionOf(ScannedLine)].Query
            = SplitN(ExecuteTail(ScannedLine), ":", 2)[2]
       /\ \A s \in DOMAIN unbounds \ {SessionOf(ScannedLine)} :
            unbounds'[s] = unbounds[s]]_vars

\* C26: in stderr parsing the step that reads a record whose message begins
\* with "LOG:  connection received: ", with "ERROR:", or with "DETAIL:" but
\* not with "DETAIL:  parameters: ", yields no item and no error and leaves
\* every pending Execute as it is.
C26_DiscardedSilently ==
  [][(\/ ScannedMsg("LOG:  connection received: ")
      \/ ScannedMsg("ERROR:")
      \/ (ScannedMsg("DETAIL:") /\ ~ScannedMsg("DETAIL:  parameters: "))) =>
       NoItemNoError /\ unbounds' = unbounds]_vars

\* the items sent on the items channel or held by the parser that carry the
\* query of the Execute e (an Execute bound, or sent as it is)
SentOf(e) ==
  {k \in 1..Len(pEmitted) :
     /\ pEmitted[k].type \in {"Execute", "BoundExecute"}
     /\ pEmitted[k].Details = e.Details}

\* C28: in stderr parsing no item is ever sent for an Execute that is in
\* the pending-execute buffer, and once the input has ended the buffer is
\* left as it is: the items channel is closed with every Execute still
\* pending unsent.
C28_PendingDiscarded ==
  parser = "errlog" =>
    /\ \A s \in DOMAIN unbounds : SentOf(unbounds[s]) = {}
    /\ pItemsClosed => \A k \in 1..Len(pItems) : pItems[k] = NilItem

\* the items channel is closed, an Execute is still pending and an earlier
\* record of the log was emitted
C28_Witness ==
  /\ parser = "errlog"
  /\ pItemsClosed
  /\ DOMAIN unbounds # {}
  /\ pEmitted # <<>>

\* the step leaves the pending Execute of every session but that of the
\* record read as it was
OthersKept ==
  /\ DOMAIN unbounds' \ {SessionOf(ScannedLine)}
       = DOMAIN unbounds \ {SessionOf(ScannedLine)}
  /\ \A s \in DOMAIN unbounds \ {SessionOf(ScannedLine)} :
       unbounds'[s] = unbounds[s]

\* C29: in stderr parsing a step that reads a record of session s leaves the
\* pending Execute of every other session as it was, and a step that reads
\* an execute record of a session that has an Execute pending yields no
\* item and no error and leaves the Execute of the new record, and only
\* that one, pending for the session.
C29_OnePendingPerSession ==
  [][ScannedMsg("") =>
       /\ OthersKept
       /\ (IsExecuteRecord(ScannedLine) /\ ScannedPending) =>
            /\ NoItemNoError
            /\ SessionOf(ScannedLine) \in DOMAIN unbounds'
            /\ unbounds'[SessionOf(ScannedLine)].Details.line = Len(pLog')]_vars

\* a record of the stderr log that fails to parse: fewer than five fields,
\* a first field that is no timestamp, a message with none of the known
\* prefixes, or a parameters record of a session with no Execute pending
KnownPrefixes ==
  {"LOG:  duration: ", "LOG:  statement: ", "LOG:  execute ",
   "LOG:  connection authorized: ", "LOG:  disconnection: ",
   "LOG:  connection received: ", "ERROR:", "DETAIL:"}
ErrlogFails(l, pending) ==
  \/ Len(SplitN(l, "|", 5)) < 5
  \/ ~TimeParseOk(SplitN(l, "|", 5)[1])
  \/ \A prefix \in KnownPrefixes : ~HasPrefix(MessageOf(l), prefix)
  \/ /\ HasPrefix(MessageOf(l), "DETAIL:  parameters: ")
     /\ SessionOf(l) \notin DOMAIN pending
\* a step in which the stderr or the JSON parser reads a record that fails
\* to parse
FailureRead ==
  /\ parser \in {"errlog", "json"}
  /\ Len(pLog') = Len(pLog) + 1
  /\ IF parser = "json" THEN pLog'[Len(pLog')] \in JsonBadLines
                        ELSE ErrlogFails(pLog'[Len(pLog')], unbounds)

\* a step in which the stderr or the JSON parser reads a record that holds
\* an item by itself: a serialised item, or a statement, connection or
\* disconnection record of the stderr log
ItemRead ==
  /\ parser \in {"errlog", "json"}
  /\ Len(pLog') = Len(pLog) + 1
  /\ IF parser = "json" THEN pLog'[Len(pLog')] \in JsonItemLines
     ELSE /\ IsRecord(pLog'[Len(pLog')])
          /\ \E prefix \in {"LOG:  statement: ", "LOG:  connection authorized: ",
                            "LOG:  disconnection: "} :
               HasPrefix(MessageOf(pLog'[Len(pLog')]), prefix)

CsvReadMsg(prefix) ==
  /\ parser = "csv"
  /\ Len(pLog') = Len(pLog) + 1
  /\ Len(csvLogline') >= 15
  /\ TimeParseOk(csvLogline'[1])
  /\ HasPrefix(csvLogline'[14], prefix)
\* the parameters that field 14 (the fifteenth field) holds
CsvParameters(field) ==
  IF field = "" THEN <<>>
  ELSE ParseBindParameters(TrimPrefix(field, "parameters: ")).parameters

\* C30: in CSV parsing the step that reads a record whose message begins
\* with "execute <unnamed>: " or with "execute <name>: " yields, with no
\* error, a BoundExecute whose parameters are those of field 14 (none when
\* the field is empty); the step that reads a record whose message is
\* "duration: N.N ms" yields no item and no error; and the map of pending
\* Executes stays empty.
C30_CsvBindsAtOnce ==
  [][parser = "csv" =>
       /\ unbounds' = EmptyMap
       /\ (/\ CsvReadMsg("execute ")
           /\ Contains(Drop(csvLogline'[14], Len("execute ")), ": ")) =>
            /\ pErr' = ""
            /\ pItem'.type = "BoundExecute"
            /\ pItem'.Details.line = Len(pLog')
            /\ pItem'.Parameters = CsvParameters(csvLogline'[15])
       /\ (/\ CsvReadMsg("duration: ")
           /\ Match(LogDuration, csvLogline'[14], ParsedFromCsv)) =>
            NoItemNoError]_vars

\* the first place at which one of the two markers occurs in a message (0
\* when neither occurs), the marker that occurs there and the text after it
QueryMarkers == {"execute <unnamed>: ", "statement: "}
MarkerAt(msg) ==
  LET places == UNION {Occurrences(msg, mk) : mk \in QueryMarkers}
  IN  IF places = {} THEN 0 ELSE Min(places)
MarkerOf(msg) ==
  CHOOSE mk \in QueryMarkers : MarkerAt(msg) \in Occurrences(msg, mk)
QueryAfterMarker(msg) == Drop(msg, MarkerAt(msg) + Len(MarkerOf(msg)) - 1)

\* C31: in CSV parsing the step that reads a record whose message is an
\* optional context followed by "execute <unnamed>: Q" or "statement: Q"
\* yields, with no error, an item whose query is Q: the text after the first
\* of the two markers, whatever Q contains.
C31_CsvQueryIsSuffix ==
  [][(CsvReadMsg("") /\ MarkerAt(csvLogline'[14]) # 0) =>
       /\ pErr' = ""
       /\ pItem'.type \in {"Statement", "BoundExecute"}
       /\ pItem'.Query = QueryAfterMarker(csvLogline'[14])]_vars


\* C32: encoding an item of one of the four types and decoding the bytes
\* succeeds and gives an item of the same type with the same timestamp,
\* session id, user, database, query and parameters (the items the stderr
\* parser yields among them).
C32_JsonRoundTrip ==
  jPc = "unmarshalled" => /\ jBack.err = ""
                          /\ jBack.item = jItem
\* a bound execute with a nil parameter, an empty string and a string
\* holding quotes, commas, a bracket and a backslash has come back
C32_Witness ==
  /\ jPc = "unmarshalled"
  /\ jItem.type = "BoundExecute"
  /\ Len(jItem.Parameters) = 3
  /\ jItem.Parameters[2].null
  /\ Contains(jItem.Query, "\"")
  /\ jBack.item = jItem

Terminators(input) ==
  {i \in 1..(Len(input) - 1) : At(input, i) = "\n" /\ At(input, i + 1) # "\t"}
\* the records of input, in order, from position i on
RECURSIVE RecordsFrom(_, _)
RecordsFrom(input, i) ==
  IF i > Len(input) THEN <<>>
  ELSE LET ends == {t \in Terminators(input) : t >= i} \cup {Len(input)}
       IN  <<SubSeq(input, i, Min(ends))>> \o RecordsFrom(input, Min(ends) + 1)
\* a record as a token: newline and tab made a newline, white space trimmed
\* (by a definition of its own, not the scanner's)
Trimmed(s) ==
  LET inside == {i \in 1..Len(s) : At(s, i) \notin {" ", "\t", "\n"}}
  IN  IF inside = {} THEN "" ELSE SubSeq(s, Min(inside), Max(inside))
Unfolded(s) ==
  LET kept == {i \in 1..Len(s) : ~(At(s, i) = "\t" /\ i > 1 /\ At(s, i - 1) = "\n")}
      f[i \in 0..Len(s)] ==
        IF i = 0 THEN ""
        ELSE f[i - 1] \o (IF i \in kept THEN At(s, i) ELSE "")
  IN  f[Len(s)]
RECURSIVE NonEmpty(_)
NonEmpty(tokens) ==
  IF tokens = <<>> THEN <<>>
  ELSE (IF Head(tokens) = "" THEN <<>> ELSE <<Head(tokens)>>) \o NonEmpty(Tail(tokens))
LogicalRecords(input) ==
  NonEmpty([k \in 1..Len(RecordsFrom(input, 1)) |->
              Trimmed(Unfolded(RecordsFrom(input, 1)[k]))])

\* C34: however the reader hands out the input, the tokens the log scanner
\* has returned are the first logical records of the input in order (a
\* newline ends a record iff a byte that is no tab follows, newline+tab is
\* a newline, tokens are trimmed, white space alone gives no token), and
\* when it stops at the end of the input they are all of them.
C34_OneTokenPerRecord ==
  scSplit = "log" =>
    /\ IsPrefix(scTokens, LogicalRecords(scInput))
    /\ (scPc = "done" /\ ScannerErr = "") => scTokens = LogicalRecords(scInput)
\* the scanner stopped at the end of an input of two records, the second
\* of two lines, which it read in several chunks (every buffer of
\* LogBuffers is shorter than this input)
C34_Witness ==
  /\ scSplit = "log"
  /\ scPc = "done"
  /\ ScannerErr = ""
  /\ scInput = "a\na\n\ta"
  /\ scTokens = <<"a", "a\na">>

\* what ParseBindParameters returns when its scanner has stopped
ScannedParameters ==
  [parameters |-> [k \in 1..Len(scTokens) |-> Parameter(scTokens[k])],
   err |-> ScannerErr]

\* C40: ParseBindParameters returns for an input the result it returns with
\* the whole input in its buffer, whether it is given no buffer (and makes
\* one of InitialScannerBufferSize bytes) or one larger than the input.
C40_BufferSizeIndependent ==
  (scSplit = "bind" /\ scPc \in {"done", "panicked"}) =>
    /\ scPc = "done"
    /\ ScannedParameters = ParseBindParameters(scInput)

\* C35: every item a parser has emitted, from a stderr log, a CSV log or a
\* file of JSON lines, has a session id that is not empty and a timestamp
\* parsed from its record (not the zero time of a record that has none).
C35_ItemsHaveSessionAndTime ==
  \A k \in 1..Len(pEmitted) :
    /\ pEmitted[k].Details.SessionID # ""
    /\ pEmitted[k].Details.Timestamp # ZeroTime

\* instants in order
TimeLeq(a, b) == a.day < b.day \/ (a.day = b.day /\ a.ms <= b.ms)
\* the records of the log read so far that carry a timestamp are in
\* non-decreasing order of it
StampedRecords ==
  {i \in 1..Len(pLog) : Len(pLog[i]) >= 27 /\ TimeParseOk(Take(pLog[i], 27))}
LogInTimeOrder ==
  \A i \in StampedRecords, j \in StampedRecords :
    i < j => TimeLeq(TimeParse(Take(pLog[i], 27)), TimeParse(Take(pLog[j], 27)))

\* C36: when the records of a stderr log are in non-decreasing order of
\* timestamp, the items emitted for one session are in non-decreasing order
\* of timestamp.
C36_SessionTimeOrder ==
  (parser = "errlog" /\ LogInTimeOrder) =>
    \A i \in 1..Len(pEmitted), j \in 1..Len(pEmitted) :
      (i < j /\ pEmitted[i].Details.SessionID = pEmitted[j].Details.SessionID)
        => TimeLeq(pEmitted[i].Details.Timestamp, pEmitted[j].Details.Timestamp)

\* C37: when the parser ended on a fatal input error (a record longer than
\* the scanner allows, a failed read), the error is sent on the parser's
\* done channel and the run command exits with status 255.
C37_FatalInputExit ==
  (rExit # NotExited /\ rParseErr # "") => rExit = {255}

\* C38: ParseErrlog closes items before errs, and errs before it sends on
\* done; what it sends on done is the error of the scanner (nil at the end
\* of the input), once, and then done is closed; once done has been sent
\* on, no item and no per-line error is sent.
C38_CompletionOrder ==
  /\ [](parser = "errlog" =>
          /\ pErrsClosed => pItemsClosed
          /\ pDone # <<>> => (pErrsClosed /\ pDone = <<scannerErr>>)
          /\ pDoneClosed => Len(pDone) = 1)
  /\ [][(parser = "errlog" /\ pDone # <<>>) =>
          /\ pEmitted' = pEmitted
          /\ pErrors' = pErrors
          /\ pDone' = pDone]_vars
\* done is closed after a scan that ended on an error of the scanner and
\* had sent an item and a per-line error before
C38_Witness ==
  /\ parser = "errlog"
  /\ pDoneClosed
  /\ pDone = <<"bufio.Scanner: token too long">>
  /\ pEmitted # <<>>
  /\ pErrors # <<>>

\* C39: with a caller that receives nothing from errs before done is
\* closed, once the input is closed and every worker started so far has
\* left its loop, Consume closes done (unless the dispatcher has failed on
\* a closed queue), however many opens failed and workers returned an
\* error.
C39_DoneBeforeErrsAreRead ==
  (inputClosed /\ \A c \in Allocated : WorkerLeftLoop(c))
    ~> (doneClosed \/ dPc = "panicked")

====
